---------------------------- MODULE Spec2Model ----------------------------
(***************************************************************************)
(* A model of the metrics core of go-component-base                        *)
(* (src/pkg/metrics/report.go): the Counter, Gauge, Histogram and Summary  *)
(* aggregates, the Collector registry and the StartReporter loop; of the   *)
(* worker Pool (src/pkg/work/pool.go); and of Request.Send                 *)
(* (src/rest/rest.go).                                                     *)
(*                                                                         *)
(* Each component has its own specification (SpecCounter, SpecGauge,       *)
(* SpecHistogram, SpecSummary, ...).  A specification starts in the state  *)
(* after construction, draws the constructor arguments of its own          *)
(* component only, and leaves the other components alone.                  *)
(*                                                                         *)
(* 64-bit words.  TLC's integers are 32 bits wide, so an element of        *)
(* Z/2^64 is kept as a record [hi, lo] standing for hi*2^63 + lo mod 2^64  *)
(* with hi \in {0,1} and lo a small signed offset.  Addition and negation  *)
(* are exact in this form (2^63 + 2^63 = 0, -2^63 = 2^63 mod 2^64).        *)
(*                                                                         *)
(* float64 values are kept as integers (the tests' values times ten);      *)
(* on the small values used every float64 sum and comparison is exact.     *)
(***************************************************************************)
EXTENDS Integers, Sequences, FiniteSets, TLC

VARIABLES
    \* CounterMetric
    cValue,      \* CounterMetric.value (atomic.Uint64), a 64-bit word
    cRead,       \* per caller: what its last Value() returned, or NoWord
    cReadAt,     \* history: Len(cLog) at the moment of that Value()
    cLog,        \* history: the mutating calls in the order they took effect
    \* GaugeMetric
    gValue,      \* GaugeMetric.value (atomic.Int64), a 64-bit word
    gRead,       \* per caller: what its last Value() returned, or NoWord
    gReadAt,     \* history: Len(gLog) at the moment of that Value()
    gLog,        \* history: the mutating calls in the order they took effect
    \* HistogramMetric
    hBuckets,    \* HistogramMetric.buckets, the bounds as NewHistogram sorted them
    hCounts,     \* HistogramMetric.counts, one per bound
    hCount,      \* HistogramMetric.count
    hSum,        \* HistogramMetric.sum
    hObserved,   \* history: the values passed to Observe, in the order in
                 \* which the calls took h.mu
    hMu,         \* HistogramMetric.mu: the caller that holds it, or NoCaller
    hPc,         \* per caller: where it is inside Observe, Value or Sum
    hArg,        \* per caller: the value passed to the Observe it is in
    hTmp,        \* per caller: the field value it loaded and has not stored
    hIdx,        \* per caller: the index i of its loop over h.buckets
    hWaited,     \* history: a caller found h.mu held and had to wait
    \* the slices in the hands of a caller of the Histogram
    hInput,      \* history: the slice as it was passed to NewHistogram, in
                 \* the specifications that follow the caller's slices (the
                 \* others do not record it)
    hRetBuckets, \* the slice that the latest Buckets() returned
    hRetCounts,  \* the slice that the latest Value() returned
    hRead,       \* what the latest Sum() or Count() returned
    \* what the callers of the Summary hold
    sRead,       \* what the latest Value(), Sum() or Count() returned
    sSorted,     \* per caller: sortedValues of the Quantiles() it is in
    \* SummaryMetric
    sQuantiles,  \* SummaryMetric.quantiles: the configured targets (the keys)
    sValues,     \* SummaryMetric.values, the retained samples in call order
    sSum,        \* SummaryMetric.sum
    sCount,      \* SummaryMetric.count
    sReturned,   \* whether the latest call was a Quantiles() that returned
    sResult,     \* the mapping that Quantiles() returned
    sSince,      \* history: the values passed to Observe since the latest
                 \* Reset (or since NewSummary), in the order they took s.mu
    sDiscarded,  \* history: a Reset found samples retained
    sMu,         \* SummaryMetric.mu: the caller that holds it, or NoCaller
    sPc,         \* per caller: where it is inside Observe or Reset
    sArg,        \* per caller: the value passed to the Observe it is in
    sTmp,        \* per caller: the s.sum it loaded and has not stored
    sWaited,     \* history: a caller found s.mu held and had to wait
    \* Collector (the process-wide globalCollector) and its callers
    metrics,     \* Collector.metrics: a function from the names present
    muWriter,    \* Collector.mu: the caller that holds Lock, or NoCaller
    muReaders,   \* Collector.mu: the callers that hold RLock
    pc,          \* per caller: where it is inside Register, Get or Metrics
    arg,         \* per caller: the argument of the call it is in
    retGet,      \* per caller: what its latest call, a Get, returned
    retMetrics,  \* per caller: the map reference that its latest call, a
                 \* Metrics(), returned
    regLog,      \* history: the Register arguments, in critical-section order
    raced,       \* history: a read of the map overlapped a write of it
    fatal,       \* the runtime has thrown "concurrent map read and map write"
    gets,        \* history: the <<name, result>> of the Get calls that returned
    \* a Collector that a caller made with NewCollector()
    otherMetrics, \* its Collector.metrics
    \* work.Pool, its workers and its callers
    numWorkers,  \* Pool.numWorkers
    taskCap,     \* cap(Pool.tasks), the taskChannelSize given to NewPool
    tasksLen,    \* len(Pool.tasks): the tasks waiting in the channel
    onceStart,   \* Pool.start (sync.Once): "fresh", "running" or "done"
    onceStop,    \* Pool.stop (sync.Once): "fresh", "running" or "done"
    quitClosed,  \* Pool.quit has been closed
    quitCloses,  \* history: the executions of close(p.quit)
    poolPanic,   \* a goroutine panicked (close of a closed channel)
    ctxDone,     \* the ctx given to Start has been cancelled
    wPc,         \* per worker started: "select", "executing" or "exited"
    plPc,        \* per caller: "idle", "spawning", "closing" or "adding"
    plIdx,       \* per caller: the i of its loop in startWorker
    startCalls,  \* history: calls of Start made
    stopCalls,   \* history: calls of Stop made
    addCalls,    \* history: calls of AddTask made
    addDropped,  \* history: calls of AddTask that returned by the quit case
    \* rest.Request and the Send() made on it
    rqMethod,    \* Request.method
    rqFiles,     \* Request.multipart: "none", or files "present" or "missing"
    rqRetries,   \* Request.retries
    sendPc,      \* "idle", "loop", "do", "after", "read", "returned", "panicked"
    sendAttempt, \* the variable attempt of Send
    sendErr,     \* the variable err of Send
    sendResp,    \* the variable resp of Send is not nil
    sendResult,  \* what Send returned: "none" yet, "response" or "error"
    sendTried,   \* history: the errors that the calls of client.Do returned
    \* StartReporter: the loop goroutine, its ticker and its stop channel
    loopPc,      \* "start", "select", "reporting" or "stopped"
    tickDue,     \* ticker.C holds a tick (a channel of capacity one)
    rptActive,   \* Report invocations that were entered and have not returned
    rptArg,      \* the map reference handed to the Report in progress
    rptTick,     \* history: the registry's mapping when that tick was taken
    rptSeen,     \* what the Report in progress last read from its argument
    reports,     \* history: Report invocations begun (saturates at MaxReports)
    rptFailed,   \* history: a Report invocation panicked
    stopClosed,  \* the stop channel has been closed
    stopper,     \* per stopper: "idle", "sending", "returned" or "panicked"
    stopLate,    \* history: the stopper signalled after the loop had stopped
    stopAt,      \* history: the time elapsed at the first signal, or NoTime
    \* time, in units of which the tick interval is a whole number
    interval,    \* the interval passed to StartReporter
    elapsed,     \* the time elapsed since the loop created its ticker
    dropped      \* history: ticks that found ticker.C full and were dropped

counterVars == <<cValue, cRead, cReadAt, cLog>>
gaugeVars == <<gValue, gRead, gReadAt, gLog>>
histogramCallVars == <<hMu, hPc, hArg, hTmp, hIdx, hWaited>>
histogramVars ==
    <<hBuckets, hCounts, hCount, hSum, hObserved, histogramCallVars>>
summaryCallVars == <<sMu, sPc, sArg, sTmp, sWaited>>
summaryVars ==
    <<sQuantiles, sValues, sSum, sCount, sReturned, sResult, sSince,
      sDiscarded, summaryCallVars>>
registryVars ==
    <<metrics, muWriter, muReaders, pc, arg, retGet, retMetrics, regLog,
      raced, fatal>>
loopVars == <<loopPc, tickDue, rptActive, rptArg, rptTick, rptSeen, reports>>
stopVars == <<stopClosed, stopper, stopLate, stopAt>>
timerVars == <<interval, elapsed, dropped>>
lookupVars == <<gets>>
histogramHeld == <<hInput, hRetBuckets, hRetCounts, hRead>>
summaryHeld == <<sRead, sSorted>>
heldVars == <<histogramHeld, summaryHeld>>
\* the state of what lies outside the calls above: the failure of a Report
\* and a Collector other than the process-wide one
failVars == <<rptFailed>>
otherVars == <<otherMetrics>>
poolVars ==
    <<numWorkers, taskCap, tasksLen, onceStart, onceStop, quitClosed,
      quitCloses, poolPanic, ctxDone, wPc, plPc, plIdx, startCalls,
      stopCalls, addCalls, addDropped>>
restVars ==
    <<rqMethod, rqFiles, rqRetries, sendPc, sendAttempt, sendErr, sendResp,
      sendResult, sendTried>>
outerVars == <<failVars, otherVars, poolVars, restVars>>
metricVars == <<counterVars, gaugeVars, histogramVars, summaryVars>>
vars ==
    <<metricVars, registryVars, loopVars, stopVars, timerVars, lookupVars, heldVars,
      outerVars>>

\* everything but the Pool
exceptPool ==
    <<metricVars, registryVars, loopVars, stopVars, timerVars, lookupVars,
      heldVars, failVars, otherVars, restVars>>
\* everything but the Request
exceptRest ==
    <<metricVars, registryVars, loopVars, stopVars, timerVars, lookupVars,
      heldVars, failVars, otherVars, poolVars>>

\* everything but one metric's variables
exceptCounter ==
    <<gaugeVars, histogramVars, summaryVars, registryVars, loopVars, stopVars,
      timerVars, lookupVars, heldVars,
      outerVars>>
exceptGauge ==
    <<counterVars, histogramVars, summaryVars, registryVars, loopVars, stopVars,
      timerVars, lookupVars, heldVars,
      outerVars>>
exceptHistogram ==
    <<counterVars, gaugeVars, summaryVars, registryVars, loopVars, stopVars,
      timerVars, lookupVars, heldVars,
      outerVars>>
\* what the callers of the Collector, the steps of the loop, and the
\* signalling of the stop handle leave alone
callersFrame == <<metricVars, loopVars, stopVars, timerVars, lookupVars, heldVars,
      outerVars>>
loopFrame ==
    <<metricVars, registryVars, stopVars, timerVars, lookupVars, heldVars,
      outerVars>>
stopFrame == <<metricVars, registryVars, timerVars, lookupVars, heldVars,
      outerVars>>
\* everything but the Histogram and the slices of its caller
exceptSlices ==
    <<counterVars, gaugeVars, summaryVars, registryVars, loopVars, stopVars,
      timerVars, lookupVars, summaryHeld, outerVars>>
\* everything but the Summary and what its callers hold
exceptSummaryHeld ==
    <<counterVars, gaugeVars, histogramVars, registryVars, loopVars, stopVars,
      timerVars, lookupVars, histogramHeld, outerVars>>
exceptSummary ==
    <<counterVars, gaugeVars, histogramVars, registryVars, loopVars, stopVars,
      timerVars, lookupVars, heldVars,
      outerVars>>

---------------------------------------------------------------------------
(* Bounds of the model *)

\* concurrent callers of one Counter / Gauge
NumCallers == 2
\* mutating calls made on the Counter in one behaviour
MaxCounterCalls == 4
\* mutating calls made on the Gauge in one behaviour
MaxGaugeCalls == 4

\* bounds passed to NewHistogram
MaxBuckets == 4
\* Observe calls made on the Histogram in one behaviour
MaxObserves == 4
\* samples a Summary retains in one behaviour
MaxSamples == 5
\* metric instances that exist under one name
NumInstances == 2
\* Register calls made in one behaviour
MaxRegisters == 3
\* Report invocations that are counted
MaxReports == 3
\* goroutines that signal the stop handle, once each
NumStoppers == 2

\* time units that pass in one behaviour
MaxElapsed == 6

Callers == 1..NumCallers
Stoppers == 1..NumStoppers

---------------------------------------------------------------------------
(* 64-bit words *)

Word(hi, lo) == [hi |-> hi, lo |-> lo]
Zero64 == Word(0, 0)
NoWord == [hi |-> -1, lo |-> 0]

\* the word of a small natural number
FromNat(n) == Word(0, n)

\* math.MaxUint64 = 2^64 - 1, math.MaxInt64 = 2^63 - 1
MaxUint64 == Word(0, -1)
MaxInt64 == Word(1, -1)
MinInt64 == Word(1, 0)

\* wrapping addition and two's-complement negation of 64-bit words
Add64(a, b) == Word((a.hi + b.hi) % 2, a.lo + b.lo)
Neg64(a) == Word(a.hi, 0 - a.lo)

---------------------------------------------------------------------------
(* CounterMetric: every method is one sync/atomic operation on value *)

\* deltas passed to Counter.Add
CounterDeltas == {FromNat(2), MaxUint64}

CounterInit ==
    /\ cValue = Zero64
    /\ cRead = [p \in Callers |-> NoWord]
    /\ cReadAt = [p \in Callers |-> 0]
    /\ cLog = <<>>

\* a faulty Inc: stores the caller's previously loaded value plus one
CounterInc_LoadThenStore(p) ==
    /\ Len(cLog) < MaxCounterCalls
    /\ cValue' = Add64(IF cRead[p] = NoWord THEN Zero64 ELSE cRead[p], FromNat(1))
    /\ cLog' = Append(cLog, [op |-> "Inc", arg |-> FromNat(1)])
    /\ UNCHANGED <<cRead, cReadAt>>

\* func (c *CounterMetric) Inc() { c.value.Add(1) }
CounterInc(p) ==
    /\ Len(cLog) < MaxCounterCalls
    /\ cValue' = Add64(cValue, FromNat(1))
    /\ cLog' = Append(cLog, [op |-> "Inc", arg |-> FromNat(1)])
    /\ UNCHANGED <<cRead, cReadAt>>

\* func (c *CounterMetric) Add(delta uint64) { c.value.Add(delta) }
CounterAdd(p, delta) ==
    /\ Len(cLog) < MaxCounterCalls
    /\ cValue' = Add64(cValue, delta)
    /\ cLog' = Append(cLog, [op |-> "Add", arg |-> delta])
    /\ UNCHANGED <<cRead, cReadAt>>

\* func (c *CounterMetric) Reset() { c.value.Store(0) }
CounterReset(p) ==
    /\ Len(cLog) < MaxCounterCalls
    /\ cValue' = Zero64
    /\ cLog' = Append(cLog, [op |-> "Reset", arg |-> Zero64])
    /\ UNCHANGED <<cRead, cReadAt>>

\* func (c *CounterMetric) Value() interface{} { return c.value.Load() }
CounterValue(p) ==
    /\ cRead' = [cRead EXCEPT ![p] = cValue]
    /\ cReadAt' = [cReadAt EXCEPT ![p] = Len(cLog)]
    /\ UNCHANGED <<cValue, cLog>>

---------------------------------------------------------------------------
(* GaugeMetric: every method is one sync/atomic operation on value *)

\* values passed to Gauge.Set, Gauge.Add and Gauge.Sub
GaugeSetArgs == {FromNat(5)}
GaugeAddArgs == {FromNat(1), MaxInt64}
GaugeSubArgs == {FromNat(2)}

\* deltas passed to both Gauge.Add and Gauge.Sub by a caller on its own
GaugeDeltas == {FromNat(1), MaxInt64, MinInt64}

GaugeInit ==
    /\ gValue = Zero64
    /\ gRead = [p \in Callers |-> NoWord]
    /\ gReadAt = [p \in Callers |-> 0]
    /\ gLog = <<>>

\* func (g *GaugeMetric) Set(value int64) { g.value.Store(value) }
GaugeSet(p, value) ==
    /\ Len(gLog) < MaxGaugeCalls
    /\ gValue' = value
    /\ gLog' = Append(gLog, [op |-> "Set", arg |-> value])
    /\ UNCHANGED <<gRead, gReadAt>>

\* a faulty Add: stores the caller's previously loaded value plus delta
GaugeAdd_LoadThenStore(p, delta) ==
    /\ Len(gLog) < MaxGaugeCalls
    /\ gValue' = Add64(IF gRead[p] = NoWord THEN Zero64 ELSE gRead[p], delta)
    /\ gLog' = Append(gLog, [op |-> "Add", arg |-> delta])
    /\ UNCHANGED <<gRead, gReadAt>>

\* func (g *GaugeMetric) Add(delta int64) { g.value.Add(delta) }
GaugeAdd(p, delta) ==
    /\ Len(gLog) < MaxGaugeCalls
    /\ gValue' = Add64(gValue, delta)
    /\ gLog' = Append(gLog, [op |-> "Add", arg |-> delta])
    /\ UNCHANGED <<gRead, gReadAt>>

\* a faulty Sub: adds delta, the sign is lost
GaugeSub_AddsDelta(p, delta) ==
    /\ Len(gLog) < MaxGaugeCalls
    /\ gValue' = Add64(gValue, delta)
    /\ gLog' = Append(gLog, [op |-> "Sub", arg |-> delta])
    /\ UNCHANGED <<gRead, gReadAt>>

\* func (g *GaugeMetric) Sub(delta int64) { g.value.Add(-delta) }
GaugeSub(p, delta) ==
    /\ Len(gLog) < MaxGaugeCalls
    /\ gValue' = Add64(gValue, Neg64(delta))
    /\ gLog' = Append(gLog, [op |-> "Sub", arg |-> delta])
    /\ UNCHANGED <<gRead, gReadAt>>

\* func (g *GaugeMetric) Value() interface{} { return g.value.Load() }
GaugeValue(p) ==
    /\ gRead' = [gRead EXCEPT ![p] = gValue]
    /\ gReadAt' = [gReadAt EXCEPT ![p] = Len(gLog)]
    /\ UNCHANGED <<gValue, gLog>>

---------------------------------------------------------------------------
(* HistogramMetric.  A float64 is kept as the integer ten times its value. *)

\* the bounds of TestHistogram (0.5, 1.0, 3.0, 5.0) and its observed values
\* (0.3, 0.6, 2.0, 10.0), with 0.5, a value equal to a bound
BoundValues == {5, 10, 30, 50}
ObserveValues == {3, 5, 6, 20, 100}

\* the slices a caller may pass to NewHistogram: any order, repeats, empty
BoundInputs == UNION {[1..n -> BoundValues] : n \in 0..MaxBuckets}

\* sort.Float64s: the sequence in ascending order
RECURSIVE SortFloat64s(_)
SortFloat64s(s) ==
    IF Len(s) <= 1 THEN s
    ELSE LET rest == SortFloat64s(Tail(s))
             lo == SelectSeq(rest, LAMBDA x : x <= Head(s))
             hi == SelectSeq(rest, LAMBDA x : x > Head(s))
         IN  lo \o <<Head(s)>> \o hi

\* a faulty NewHistogram: keeps the bounds in the order they were passed
NewHistogram_Unsorted(buckets) ==
    /\ hBuckets = buckets
    /\ hCounts = [i \in 1..Len(hBuckets) |-> 0]
    /\ hCount = 0
    /\ hSum = 0
    /\ hObserved = <<>>
    /\ hMu = 0
    /\ hPc = [p \in Callers |-> "idle"]
    /\ hArg = [p \in Callers |-> 0]
    /\ hTmp = [p \in Callers |-> 0]
    /\ hIdx = [p \in Callers |-> 0]
    /\ hWaited = FALSE

\* NewHistogram(name, buckets): sorts the bounds, zeroes the counts
NewHistogram(buckets) ==
    /\ hBuckets = SortFloat64s(buckets)
    /\ hCounts = [i \in 1..Len(hBuckets) |-> 0]
    /\ hCount = 0
    /\ hSum = 0
    /\ hObserved = <<>>
    /\ hMu = 0
    /\ hPc = [p \in Callers |-> "idle"]
    /\ hArg = [p \in Callers |-> 0]
    /\ hTmp = [p \in Callers |-> 0]
    /\ hIdx = [p \in Callers |-> 0]
    /\ hWaited = FALSE

\* a faulty Observe: a value above the largest bound is counted in the last
\* bucket (the lines commented out at the end of Observe)
HistogramObserve_OverflowIntoLast(value) ==
    /\ Len(hObserved) < MaxObserves
    /\ hObserved' = Append(hObserved, value)
    /\ IF Len(hBuckets) = 0
       THEN UNCHANGED <<hCounts, hCount, hSum>>
       ELSE /\ hCount' = hCount + 1
            /\ hSum' = hSum + value
            /\ hCounts' = [i \in 1..Len(hBuckets) |->
                    IF \/ value <= hBuckets[i]
                       \/ i = Len(hBuckets) /\ value > hBuckets[i]
                    THEN hCounts[i] + 1 ELSE hCounts[i]]
    /\ UNCHANGED <<hBuckets, histogramCallVars>>

\* a faulty Observe: counts the value in the first bucket that holds it only
HistogramObserve_FirstMatchOnly(value) ==
    /\ Len(hObserved) < MaxObserves
    /\ hObserved' = Append(hObserved, value)
    /\ IF Len(hBuckets) = 0
       THEN UNCHANGED <<hCounts, hCount, hSum>>
       ELSE /\ hCount' = hCount + 1
            /\ hSum' = hSum + value
            /\ hCounts' = [i \in 1..Len(hBuckets) |->
                    IF /\ value <= hBuckets[i]
                       /\ \A j \in 1..(i - 1) : value > hBuckets[j]
                    THEN hCounts[i] + 1 ELSE hCounts[i]]
    /\ UNCHANGED <<hBuckets, histogramCallVars>>

\* func (h *HistogramMetric) Observe(value float64), under h.mu: returns at
\* once when there are no bounds; otherwise count, sum, and one increment
\* of every bucket with value <= bound
HistogramObserve(value) ==
    /\ Len(hObserved) < MaxObserves
    /\ hObserved' = Append(hObserved, value)
    /\ IF Len(hBuckets) = 0
       THEN UNCHANGED <<hCounts, hCount, hSum>>
       ELSE /\ hCount' = hCount + 1
            /\ hSum' = hSum + value
            /\ hCounts' = [i \in 1..Len(hBuckets) |->
                    IF value <= hBuckets[i] THEN hCounts[i] + 1 ELSE hCounts[i]]
    /\ UNCHANGED <<hBuckets, histogramCallVars>>

(* The slices of a caller that makes its calls one after the other.  A    *)
(* slice is a reference: to memory of the caller's own, or to the array    *)
(* of a field of the Histogram.  NewHistogram sorts the slice it is passed *)
(* in place and keeps it as h.buckets, so the caller's slice and h.buckets *)
(* are one array.                                                          *)

\* references to a slice: a copy that only its holder reaches, the array
\* of the Histogram's field, and "no slice returned yet"
CopySlice(s) == [own |-> TRUE, val |-> s]
LiveSlice == [own |-> FALSE, val |-> <<>>]
NoSlice == CopySlice(<<0 - 1>>)
NoRead == [op |-> "none", val |-> 0]

\* the elements that a reference leads to, given those of the field
SliceOf(ref, field) == IF ref.own THEN ref.val ELSE field

\* the caller has not called yet; it passed the slice to NewHistogram
HistogramCallerInit(buckets) ==
    /\ hInput = buckets
    /\ hRetBuckets = NoSlice
    /\ hRetCounts = NoSlice
    /\ hRead = NoRead

\* bounds in any order without repeats, the values observed, and the value
\* a caller writes into a slice it holds
PermutedBounds ==
    {s \in BoundInputs : \A i, j \in 1..Len(s) : s[i] = s[j] => i = j}
SequentialValues == {3, 20, 100}
WrittenValue == 20

\* Buckets(): return append([]float64(nil), h.buckets...)
HistogramBuckets ==
    /\ hRetBuckets' = CopySlice(hBuckets)
    /\ UNCHANGED <<hInput, hRetCounts, hRead, histogramVars>>

\* a faulty Value: return h.counts, the Histogram's own slice
HistogramValue_LiveSlice ==
    /\ hRetCounts' = LiveSlice
    /\ UNCHANGED <<hInput, hRetBuckets, hRead, histogramVars>>

\* Value(): return append([]float64(nil), h.counts...)
HistogramValue ==
    /\ hRetCounts' = CopySlice(hCounts)
    /\ UNCHANGED <<hInput, hRetBuckets, hRead, histogramVars>>

\* Sum(): return h.sum
HistogramSum ==
    /\ hRead' = [op |-> "Sum", val |-> hSum]
    /\ UNCHANGED <<hInput, hRetBuckets, hRetCounts, histogramVars>>

\* Count(): return h.count.Load()
HistogramCount ==
    /\ hRead' = [op |-> "Count", val |-> hCount]
    /\ UNCHANGED <<hInput, hRetBuckets, hRetCounts, histogramVars>>

\* the caller writes buckets[i-1] = value into the slice it passed to
\* NewHistogram: the array is that of h.buckets
WritePassed(i, value) ==
    /\ i \in 1..Len(hBuckets)
    /\ hBuckets' = [hBuckets EXCEPT ![i] = value]
    /\ UNCHANGED <<hCounts, hCount, hSum, hObserved, histogramCallVars,
                   histogramHeld>>

\* the caller writes into the slice a Buckets() returned
WriteReturnedBuckets(i, value) ==
    /\ hRetBuckets # NoSlice
    /\ i \in 1..Len(SliceOf(hRetBuckets, hBuckets))
    /\ IF hRetBuckets.own
       THEN /\ hRetBuckets' =
                   CopySlice([hRetBuckets.val EXCEPT ![i] = value])
            /\ UNCHANGED hBuckets
       ELSE /\ hBuckets' = [hBuckets EXCEPT ![i] = value]
            /\ UNCHANGED hRetBuckets
    /\ UNCHANGED <<hCounts, hCount, hSum, hObserved, histogramCallVars,
                   hInput, hRetCounts, hRead>>

\* the caller writes into the slice a Value() returned
WriteReturnedCounts(i, value) ==
    /\ hRetCounts # NoSlice
    /\ i \in 1..Len(SliceOf(hRetCounts, hCounts))
    /\ IF hRetCounts.own
       THEN /\ hRetCounts' = CopySlice([hRetCounts.val EXCEPT ![i] = value])
            /\ UNCHANGED hCounts
       ELSE /\ hCounts' = [hCounts EXCEPT ![i] = value]
            /\ UNCHANGED hRetCounts
    /\ UNCHANGED <<hBuckets, hCount, hSum, hObserved, histogramCallVars,
                   hInput, hRetBuckets, hRead>>

(* The same Observe, and the readers Value() and Sum(), step by step, for  *)
(* callers that run concurrently.  h.sum += value and h.counts[i]++ are a  *)
(* load followed by a store; h.count.Add(1) is one atomic operation.       *)

\* the bounds and the values of the concurrent callers
ConcurrentBounds == {<<5>>, <<30, 5>>}
ConcurrentValues == {3, 20, 100}

\* a caller calls Observe(value) and reaches h.mu.Lock()
ObserveCall(p, value) ==
    /\ hPc[p] = "idle"
    /\ Len(hObserved) + Cardinality({q \in Callers : hPc[q] = "lock"})
           < MaxObserves
    /\ hArg' = [hArg EXCEPT ![p] = value]
    /\ hPc' = [hPc EXCEPT ![p] = "lock"]
    /\ hWaited' = (hWaited \/ hMu # 0)
    /\ UNCHANGED <<hBuckets, hCounts, hCount, hSum, hObserved, hMu, hTmp,
                   hIdx>>

\* a faulty Observe: goes on without taking h.mu
ObserveLock_NoMutex(p) ==
    /\ hPc[p] = "lock"
    /\ hObserved' = Append(hObserved, hArg[p])
    /\ hPc' = [hPc EXCEPT ![p] =
                  IF Len(hBuckets) = 0 THEN "unlock" ELSE "count"]
    /\ UNCHANGED <<hBuckets, hCounts, hCount, hSum, hMu, hArg, hTmp, hIdx,
                   hWaited>>

\* h.mu.Lock() returns, then the test  len(h.buckets) == 0
ObserveLock(p) ==
    /\ hPc[p] = "lock"
    /\ hMu = 0
    /\ hMu' = p
    /\ hObserved' = Append(hObserved, hArg[p])
    /\ hPc' = [hPc EXCEPT ![p] =
                  IF Len(hBuckets) = 0 THEN "unlock" ELSE "count"]
    /\ UNCHANGED <<hBuckets, hCounts, hCount, hSum, hArg, hTmp, hIdx,
                   hWaited>>

\* h.count.Add(1), and the load of h.sum
ObserveCount(p) ==
    /\ hPc[p] = "count"
    /\ hCount' = hCount + 1
    /\ hTmp' = [hTmp EXCEPT ![p] = hSum]
    /\ hPc' = [hPc EXCEPT ![p] = "sum"]
    /\ UNCHANGED <<hBuckets, hCounts, hSum, hObserved, hMu, hArg, hIdx,
                   hWaited>>

\* the store of h.sum, and the loop over h.buckets begins
ObserveSum(p) ==
    /\ hPc[p] = "sum"
    /\ hSum' = hTmp[p] + hArg[p]
    /\ hIdx' = [hIdx EXCEPT ![p] = 1]
    /\ hPc' = [hPc EXCEPT ![p] = "bucket"]
    /\ UNCHANGED <<hBuckets, hCounts, hCount, hObserved, hMu, hArg, hTmp,
                   hWaited>>

\* one round of the loop: the test  value <= bucket  and, when it holds,
\* the load of h.counts[i]; the loop ends after the last bound
ObserveBucket(p) ==
    /\ hPc[p] = "bucket"
    /\ IF hIdx[p] > Len(hBuckets)
       THEN /\ hPc' = [hPc EXCEPT ![p] = "unlock"]
            /\ UNCHANGED <<hTmp, hIdx>>
       ELSE IF hArg[p] <= hBuckets[hIdx[p]]
       THEN /\ hTmp' = [hTmp EXCEPT ![p] = hCounts[hIdx[p]]]
            /\ hPc' = [hPc EXCEPT ![p] = "store"]
            /\ UNCHANGED hIdx
       ELSE /\ hIdx' = [hIdx EXCEPT ![p] = hIdx[p] + 1]
            /\ UNCHANGED <<hPc, hTmp>>
    /\ UNCHANGED <<hBuckets, hCounts, hCount, hSum, hObserved, hMu, hArg,
                   hWaited>>

\* the store of h.counts[i], and the next round
ObserveStore(p) ==
    /\ hPc[p] = "store"
    /\ hCounts' = [hCounts EXCEPT ![hIdx[p]] = hTmp[p] + 1]
    /\ hIdx' = [hIdx EXCEPT ![p] = hIdx[p] + 1]
    /\ hPc' = [hPc EXCEPT ![p] = "bucket"]
    /\ UNCHANGED <<hBuckets, hCount, hSum, hObserved, hMu, hArg, hTmp,
                   hWaited>>

\* the deferred h.mu.Unlock(), and the return
ObserveUnlock(p) ==
    /\ hPc[p] = "unlock"
    /\ hMu' = IF hMu = p THEN 0 ELSE hMu
    /\ hPc' = [hPc EXCEPT ![p] = "idle"]
    /\ hArg' = [hArg EXCEPT ![p] = 0]
    /\ hTmp' = [hTmp EXCEPT ![p] = 0]
    /\ hIdx' = [hIdx EXCEPT ![p] = 0]
    /\ UNCHANGED <<hBuckets, hCounts, hCount, hSum, hObserved, hWaited>>

\* a caller calls Value() or Sum() and reaches h.mu.Lock()
ReadCall(p) ==
    /\ hPc[p] = "idle"
    /\ hPc' = [hPc EXCEPT ![p] = "rlock"]
    /\ hWaited' = (hWaited \/ hMu # 0)
    /\ UNCHANGED <<hBuckets, hCounts, hCount, hSum, hObserved, hMu, hArg,
                   hTmp, hIdx>>

\* h.mu.Lock() returns: the reader is about to copy h.counts, or read h.sum
ReadLock(p) ==
    /\ hPc[p] = "rlock"
    /\ hMu = 0
    /\ hMu' = p
    /\ hPc' = [hPc EXCEPT ![p] = "read"]
    /\ UNCHANGED <<hBuckets, hCounts, hCount, hSum, hObserved, hArg, hTmp,
                   hIdx, hWaited>>

\* the reader has what it returns; the deferred h.mu.Unlock()
ReadReturn(p) ==
    /\ hPc[p] = "read"
    /\ hMu' = 0
    /\ hPc' = [hPc EXCEPT ![p] = "idle"]
    /\ UNCHANGED <<hBuckets, hCounts, hCount, hSum, hObserved, hArg, hTmp,
                   hIdx, hWaited>>

---------------------------------------------------------------------------
(* SummaryMetric.  A float64 sample is kept as the integer ten times its   *)
(* value; a quantile target q is kept as the fraction <<num, den>>.  For   *)
(* the targets below (0.25, 0.5, 0.9, 1.0) and every sample count up to    *)
(* 2000 the float64 product q * float64(N) truncates to the same integer   *)
(* as the exact product num * N / den.                                     *)

\* the samples of TestSummary (1, 2, 3, 4, 5)
SampleValues == {10, 20, 30, 40, 50}

\* quantile targets a caller may configure, each in (0, 1]
QuantileTargets == {<<1, 4>>, <<1, 2>>, <<9, 10>>, <<1, 1>>}

\* NewSummary(name, quantiles): keeps the targets, no samples
NewSummary(quantiles) ==
    /\ sQuantiles = quantiles
    /\ sValues = <<>>
    /\ sSum = 0
    /\ sCount = 0
    /\ sReturned = FALSE
    /\ sResult = <<>>
    /\ sSince = <<>>
    /\ sDiscarded = FALSE
    /\ sMu = 0
    /\ sPc = [p \in Callers |-> "idle"]
    /\ sArg = [p \in Callers |-> 0]
    /\ sTmp = [p \in Callers |-> 0]
    /\ sWaited = FALSE

\* func (s *SummaryMetric) Observe(value float64), under s.mu
SummaryObserve(value) ==
    /\ Len(sValues) < MaxSamples
    /\ sValues' = Append(sValues, value)
    /\ sSum' = sSum + value
    /\ sCount' = sCount + 1
    /\ sReturned' = FALSE
    /\ sResult' = <<>>
    /\ sSince' = Append(sSince, value)
    /\ UNCHANGED <<sQuantiles, sDiscarded, summaryCallVars>>

\* a faulty Reset: s.sum = 0 is missing
SummaryReset_KeepsSum ==
    /\ sValues' = <<>>
    /\ sSum' = sSum
    /\ sCount' = 0
    /\ sReturned' = FALSE
    /\ sResult' = <<>>
    /\ sSince' = <<>>
    /\ sDiscarded' = (sDiscarded \/ sValues # <<>>)
    /\ UNCHANGED <<sQuantiles, summaryCallVars>>

\* func (s *SummaryMetric) Reset(), under s.mu
SummaryReset ==
    /\ sValues' = <<>>
    /\ sSum' = 0
    /\ sCount' = 0
    /\ sReturned' = FALSE
    /\ sResult' = <<>>
    /\ sSince' = <<>>
    /\ sDiscarded' = (sDiscarded \/ sValues # <<>>)
    /\ UNCHANGED <<sQuantiles, summaryCallVars>>

\* index := int(q * float64(len(sortedValues))), clamped to the last index
QuantileIndex(q, n) ==
    LET index == (q[1] * n) \div q[2]
    IN  IF index >= n THEN n - 1 ELSE index

\* a faulty Quantiles: without the test for no samples, 0 for every target
Quantiles_ZeroWhenEmpty(values, targets) ==
    IF Len(values) = 0 THEN [q \in targets |-> 0]
    ELSE LET sortedValues == SortFloat64s(values)
         IN  [q \in targets |->
                 sortedValues[QuantileIndex(q, Len(sortedValues)) + 1]]

\* a faulty Quantiles: indexes the samples in call order, without sorting
Quantiles_Unsorted(values, targets) ==
    IF Len(values) = 0 THEN <<>>
    ELSE [q \in targets |-> values[QuantileIndex(q, Len(values)) + 1]]

\* the mapping built by Quantiles() from the samples and the targets
Quantiles(values, targets) ==
    IF Len(values) = 0 THEN <<>>
    ELSE LET sortedValues == SortFloat64s(values)
         IN  [q \in targets |->
                 sortedValues[QuantileIndex(q, Len(sortedValues)) + 1]]

\* a faulty Quantiles: sort.Float64s(s.values), no copy
SummaryQuantiles_SortsInPlace ==
    /\ sResult' = Quantiles(sValues, sQuantiles)
    /\ sReturned' = TRUE
    /\ sValues' = SortFloat64s(sValues)
    /\ UNCHANGED <<sQuantiles, sSum, sCount, sSince, sDiscarded,
                   summaryCallVars>>

\* func (s *SummaryMetric) Quantiles() map[float64]float64, under s.mu
SummaryQuantiles ==
    /\ sResult' = Quantiles(sValues, sQuantiles)
    /\ sReturned' = TRUE
    /\ UNCHANGED <<sQuantiles, sValues, sSum, sCount, sSince, sDiscarded,
                   summaryCallVars>>

\* the caller has not called yet
SummaryCallerInit ==
    /\ sRead = NoRead
    /\ sSorted = [p \in Callers |-> <<>>]

\* the targets of TestSummary, none, and all
SequentialTargets == {{}, {<<1, 2>>, <<9, 10>>}, QuantileTargets}

\* Value(): return append([]float64(nil), s.values...)
SummaryValue ==
    /\ sRead' = [op |-> "Value", val |-> sValues]
    /\ UNCHANGED <<sSorted, summaryVars>>

\* Sum(): return s.sum
SummarySum ==
    /\ sRead' = [op |-> "Sum", val |-> sSum]
    /\ UNCHANGED <<sSorted, summaryVars>>

\* Count(): return s.count.Load()
SummaryCount ==
    /\ sRead' = [op |-> "Count", val |-> sCount]
    /\ UNCHANGED <<sSorted, summaryVars>>

(* The same Observe and Reset, step by step, for callers that run          *)
(* concurrently.  s.sum += value is a load followed by a store;            *)
(* s.count.Add(1) and s.count.Store(0) are one atomic operation each.      *)

\* the values of the concurrent callers
ConcurrentSamples == {10, 30}

\* the variables of the Summary that the steps below leave alone unless
\* they say otherwise
summaryHistory == <<sQuantiles, sReturned, sResult, sWaited>>

\* a caller calls Observe(value) and reaches s.mu.Lock()
SummaryObserveCall(p, value) ==
    /\ sPc[p] = "idle"
    /\ Len(sValues) + Cardinality({q \in Callers : sPc[q] = "olock"})
           < MaxSamples
    /\ sArg' = [sArg EXCEPT ![p] = value]
    /\ sPc' = [sPc EXCEPT ![p] = "olock"]
    /\ sWaited' = (sWaited \/ sMu # 0)
    /\ UNCHANGED <<sQuantiles, sValues, sSum, sCount, sReturned, sResult,
                   sSince, sDiscarded, sMu, sTmp>>

\* Observe: s.mu.Lock() returns
SummaryObserveLock(p) ==
    /\ sPc[p] = "olock"
    /\ sMu = 0
    /\ sMu' = p
    /\ sSince' = Append(sSince, sArg[p])
    /\ sPc' = [sPc EXCEPT ![p] = "append"]
    /\ UNCHANGED <<sValues, sSum, sCount, sDiscarded, sArg, sTmp,
                   summaryHistory>>

\* Observe: s.values = append(s.values, value), and the load of s.sum
SummaryObserveAppend(p) ==
    /\ sPc[p] = "append"
    /\ sValues' = Append(sValues, sArg[p])
    /\ sTmp' = [sTmp EXCEPT ![p] = sSum]
    /\ sPc' = [sPc EXCEPT ![p] = "sum"]
    /\ UNCHANGED <<sSum, sCount, sSince, sDiscarded, sMu, sArg,
                   summaryHistory>>

\* Observe: the store of s.sum
SummaryObserveSum(p) ==
    /\ sPc[p] = "sum"
    /\ sSum' = sTmp[p] + sArg[p]
    /\ sPc' = [sPc EXCEPT ![p] = "count"]
    /\ UNCHANGED <<sValues, sCount, sSince, sDiscarded, sMu, sArg, sTmp,
                   summaryHistory>>

\* Observe: s.count.Add(1)
SummaryObserveCount(p) ==
    /\ sPc[p] = "count"
    /\ sCount' = sCount + 1
    /\ sPc' = [sPc EXCEPT ![p] = "unlock"]
    /\ UNCHANGED <<sValues, sSum, sSince, sDiscarded, sMu, sArg, sTmp,
                   summaryHistory>>

\* a caller calls Reset() and reaches s.mu.Lock()
SummaryResetCall(p) ==
    /\ sPc[p] = "idle"
    /\ sPc' = [sPc EXCEPT ![p] = "rlock"]
    /\ sWaited' = (sWaited \/ sMu # 0)
    /\ UNCHANGED <<sQuantiles, sValues, sSum, sCount, sReturned, sResult,
                   sSince, sDiscarded, sMu, sArg, sTmp>>

\* a faulty Reset: goes on without taking s.mu
SummaryResetLock_NoMutex(p) ==
    /\ sPc[p] = "rlock"
    /\ sSince' = <<>>
    /\ sDiscarded' = (sDiscarded \/ sValues # <<>>)
    /\ sPc' = [sPc EXCEPT ![p] = "rvalues"]
    /\ UNCHANGED <<sValues, sSum, sCount, sMu, sArg, sTmp, summaryHistory>>

\* Reset: s.mu.Lock() returns
SummaryResetLock(p) ==
    /\ sPc[p] = "rlock"
    /\ sMu = 0
    /\ sMu' = p
    /\ sSince' = <<>>
    /\ sDiscarded' = (sDiscarded \/ sValues # <<>>)
    /\ sPc' = [sPc EXCEPT ![p] = "rvalues"]
    /\ UNCHANGED <<sValues, sSum, sCount, sArg, sTmp, summaryHistory>>

\* Reset: s.values = s.values[:0]
SummaryResetValues(p) ==
    /\ sPc[p] = "rvalues"
    /\ sValues' = <<>>
    /\ sPc' = [sPc EXCEPT ![p] = "rsum"]
    /\ UNCHANGED <<sSum, sCount, sSince, sDiscarded, sMu, sArg, sTmp,
                   summaryHistory>>

\* Reset: s.sum = 0
SummaryResetSum(p) ==
    /\ sPc[p] = "rsum"
    /\ sSum' = 0
    /\ sPc' = [sPc EXCEPT ![p] = "rcount"]
    /\ UNCHANGED <<sValues, sCount, sSince, sDiscarded, sMu, sArg, sTmp,
                   summaryHistory>>

\* Reset: s.count.Store(0)
SummaryResetCount(p) ==
    /\ sPc[p] = "rcount"
    /\ sCount' = 0
    /\ sPc' = [sPc EXCEPT ![p] = "unlock"]
    /\ UNCHANGED <<sValues, sSum, sSince, sDiscarded, sMu, sArg, sTmp,
                   summaryHistory>>

\* Observe and Reset: the deferred s.mu.Unlock(), and the return
SummaryUnlock(p) ==
    /\ sPc[p] = "unlock"
    /\ sMu' = IF sMu = p THEN 0 ELSE sMu
    /\ sPc' = [sPc EXCEPT ![p] = "idle"]
    /\ sArg' = [sArg EXCEPT ![p] = 0]
    /\ sTmp' = [sTmp EXCEPT ![p] = 0]
    /\ UNCHANGED <<sValues, sSum, sCount, sSince, sDiscarded,
                   summaryHistory>>

(* Quantiles(), step by step, for a caller that runs concurrently with     *)
(* Observe and Reset calls.                                                *)

\* the caller of Quantiles, and the callers of Observe and Reset
QuantilesCaller == 1
Observers == Callers \ {QuantilesCaller}

\* the targets of the concurrent callers
ConcurrentTargets == {{<<1, 2>>}, {<<1, 4>>, <<9, 10>>}}

\* what the steps of Quantiles leave alone unless they say otherwise
quantilesFrame ==
    <<sQuantiles, sValues, sSum, sCount, sSince, sDiscarded, sArg, sTmp,
      sRead>>

\* a caller calls Quantiles() and reaches s.mu.Lock()
SummaryQuantilesCall(p) ==
    /\ sPc[p] = "idle"
    /\ sPc' = [sPc EXCEPT ![p] = "qlock"]
    /\ sWaited' = (sWaited \/ sMu # 0)
    /\ sReturned' = FALSE
    /\ sResult' = <<>>
    /\ UNCHANGED <<sMu, sSorted, quantilesFrame>>

\* a faulty Quantiles: goes on without taking s.mu
SummaryQuantilesLock_NoMutex(p) ==
    /\ sPc[p] = "qlock"
    /\ sPc' = [sPc EXCEPT ![p] = "qmake"]
    /\ UNCHANGED <<sMu, sReturned, sResult, sSorted, sWaited,
                   quantilesFrame>>

\* Quantiles: s.mu.Lock() returns
SummaryQuantilesLock(p) ==
    /\ sPc[p] = "qlock"
    /\ sMu = 0
    /\ sMu' = p
    /\ sPc' = [sPc EXCEPT ![p] = "qmake"]
    /\ UNCHANGED <<sReturned, sResult, sSorted, sWaited, quantilesFrame>>

\* Quantiles: the test len(s.values) == 0, and
\* sortedValues := make([]float64, len(s.values))
SummaryQuantilesMake(p) ==
    /\ sPc[p] = "qmake"
    /\ sSorted' = [sSorted EXCEPT ![p] = [i \in 1..Len(sValues) |-> 0]]
    /\ sPc' = [sPc EXCEPT ![p] =
                  IF Len(sValues) = 0 THEN "qreturn" ELSE "qcopy"]
    /\ UNCHANGED <<sMu, sReturned, sResult, sWaited, quantilesFrame>>

\* Quantiles: copy(sortedValues, s.values), which copies as many elements
\* as the shorter of the two holds, and sort.Float64s(sortedValues)
SummaryQuantilesCopy(p) ==
    /\ sPc[p] = "qcopy"
    /\ sSorted' = [sSorted EXCEPT ![p] =
           SortFloat64s([i \in 1..Len(sSorted[p]) |->
               IF i <= Len(sValues) THEN sValues[i] ELSE sSorted[p][i]])]
    /\ sPc' = [sPc EXCEPT ![p] = "qreturn"]
    /\ UNCHANGED <<sMu, sReturned, sResult, sWaited, quantilesFrame>>

\* Quantiles: the loop over s.quantiles on sortedValues, the return of the
\* mapping, and the deferred s.mu.Unlock()
SummaryQuantilesReturn(p) ==
    /\ sPc[p] = "qreturn"
    /\ sResult' =
           IF Len(sSorted[p]) = 0 THEN <<>>
           ELSE [q \in sQuantiles |->
                    sSorted[p][QuantileIndex(q, Len(sSorted[p])) + 1]]
    /\ sReturned' = TRUE
    /\ sMu' = IF sMu = p THEN 0 ELSE sMu
    /\ sSorted' = [sSorted EXCEPT ![p] = <<>>]
    /\ sPc' = [sPc EXCEPT ![p] = "idle"]
    /\ UNCHANGED <<sWaited, quantilesFrame>>

---------------------------------------------------------------------------
(* Collector.  Register, Get and Metrics take Collector.mu; the steps of a *)
(* call are the acquisition of the lock (with the reads made under it),    *)
(* the map assignment, and the release.  A Go map assignment is not one    *)
(* atomic step: between RegisterLock and RegisterAssign the map is being   *)
(* written.  (A blocked Lock of a sync.RWMutex also holds back later RLock *)
(* calls; that only removes interleavings and is left out.)                *)

Names == {"a", "b"}
MetricInstances == [name : Names, id : 1..NumInstances]
Nil == [name |-> "", id |-> 0]
NoCaller == 0
EmptyMap == <<>>

\* a map reference: the Collector's own map, or a map of the holder's own
CollectorMapRef == [own |-> FALSE, val |-> EmptyMap]
CopyRef(m) == [own |-> TRUE, val |-> m]
NoRef == CopyRef(EmptyMap)

\* the mapping a reference leads to
Deref(ref) == IF ref.own THEN ref.val ELSE metrics

\* c.metrics[name]: the entry, or nil
Lookup(m, name) == IF name \in DOMAIN m THEN m[name] ELSE Nil

\* m[name] = metric
Assign(m, name, metric) ==
    [n \in DOMAIN m \cup {name} |-> IF n = name THEN metric ELSE m[n]]

\* a goroutine is inside the assignment c.metrics[m.Name()] = m
MapBeingWritten == \E p \in Callers : pc[p] = "assign"

\* NewCollector(), and callers that have not called yet
CollectorInit ==
    /\ metrics = EmptyMap
    /\ muWriter = NoCaller
    /\ muReaders = {}
    /\ pc = [p \in Callers |-> "idle"]
    /\ arg = [p \in Callers |-> Nil]
    /\ retGet = [p \in Callers |-> Nil]
    /\ retMetrics = [p \in Callers |-> NoRef]
    /\ regLog = <<>>
    /\ raced = FALSE
    /\ fatal = FALSE
    /\ gets = {}

\* a metric of a caller's own under the name, registered nowhere
Unregistered(name) == [name |-> name, id |-> 0]

\* one metric under the name, for callers that register the same metric
OneInstance(name) == [name |-> name, id |-> 1]

\* the metrics of callers that race to register under the name "a", and
\* one metric under every other name
RacingInstances ==
    {m \in MetricInstances : m.name = "a"} \cup {OneInstance(n) : n \in Names}

\* a faulty Register: assigns without testing whether the name is present
RegisterLock_NoCheck(p, m) ==
    /\ ~fatal
    /\ pc[p] = "idle"
    /\ Len(regLog) < MaxRegisters
    /\ muWriter = NoCaller /\ muReaders = {}
    /\ muWriter' = p
    /\ arg' = [arg EXCEPT ![p] = m]
    /\ regLog' = Append(regLog, m)
    /\ pc' = [pc EXCEPT ![p] = "assign"]
    /\ retGet' = [retGet EXCEPT ![p] = Nil]
    /\ retMetrics' = [retMetrics EXCEPT ![p] = NoRef]
    /\ UNCHANGED <<metrics, muReaders, raced, fatal>>

\* Register(m): c.mu.Lock(), then the test  _, ok := c.metrics[m.Name()]
RegisterLock(p, m) ==
    /\ ~fatal
    /\ pc[p] = "idle"
    /\ Len(regLog) < MaxRegisters
    /\ muWriter = NoCaller /\ muReaders = {}
    /\ muWriter' = p
    /\ arg' = [arg EXCEPT ![p] = m]
    /\ regLog' = Append(regLog, m)
    /\ pc' = [pc EXCEPT ![p] =
                 IF m.name \in DOMAIN metrics THEN "unlock" ELSE "assign"]
    /\ retGet' = [retGet EXCEPT ![p] = Nil]
    /\ retMetrics' = [retMetrics EXCEPT ![p] = NoRef]
    /\ UNCHANGED <<metrics, muReaders, raced, fatal>>

\* a faulty Register: makes a new map that holds the one entry
RegisterAssign_ReplacesMap(p) ==
    /\ ~fatal
    /\ pc[p] = "assign"
    /\ metrics' = Assign(EmptyMap, arg[p].name, arg[p])
    /\ pc' = [pc EXCEPT ![p] = "unlock"]
    /\ UNCHANGED <<muWriter, muReaders, arg, retGet, retMetrics, regLog,
                   raced, fatal>>

\* Register(m): c.metrics[m.Name()] = m completes
RegisterAssign(p) ==
    /\ ~fatal
    /\ pc[p] = "assign"
    /\ metrics' = Assign(metrics, arg[p].name, arg[p])
    /\ pc' = [pc EXCEPT ![p] = "unlock"]
    /\ UNCHANGED <<muWriter, muReaders, arg, retGet, retMetrics, regLog,
                   raced, fatal>>

\* Register(m): the deferred c.mu.Unlock(), and the return
RegisterUnlock(p) ==
    /\ ~fatal
    /\ pc[p] = "unlock"
    /\ muWriter' = NoCaller
    /\ pc' = [pc EXCEPT ![p] = "idle"]
    /\ arg' = [arg EXCEPT ![p] = Nil]
    /\ UNCHANGED <<metrics, muReaders, retGet, retMetrics, regLog,
                   raced, fatal>>

\* Get(name): c.mu.RLock()
GetRLock(p, name) ==
    /\ ~fatal
    /\ pc[p] = "idle"
    /\ muWriter = NoCaller
    /\ muReaders' = muReaders \cup {p}
    /\ arg' = [arg EXCEPT ![p] = Unregistered(name)]
    /\ pc' = [pc EXCEPT ![p] = "get"]
    /\ retGet' = [retGet EXCEPT ![p] = Nil]
    /\ retMetrics' = [retMetrics EXCEPT ![p] = NoRef]
    /\ UNCHANGED <<metrics, muWriter, regLog, raced, fatal>>

\* a faulty Get: takes the metric out of the map
GetReturn_Removes(p) ==
    /\ ~fatal
    /\ pc[p] = "get"
    /\ retGet' = [retGet EXCEPT ![p] = Lookup(metrics, arg[p].name)]
    /\ metrics' = [n \in DOMAIN metrics \ {arg[p].name} |-> metrics[n]]
    /\ raced' = (raced \/ MapBeingWritten)
    /\ muReaders' = muReaders \ {p}
    /\ pc' = [pc EXCEPT ![p] = "idle"]
    /\ arg' = [arg EXCEPT ![p] = Nil]
    /\ UNCHANGED <<muWriter, retMetrics, regLog, fatal>>

\* a faulty Get: a miss leaves a nil entry under the name in the map
GetReturn_InsertsOnMiss(p) ==
    /\ ~fatal
    /\ pc[p] = "get"
    /\ retGet' = [retGet EXCEPT ![p] = Lookup(metrics, arg[p].name)]
    /\ metrics' = IF arg[p].name \in DOMAIN metrics THEN metrics
                  ELSE Assign(metrics, arg[p].name, Nil)
    /\ raced' = (raced \/ MapBeingWritten)
    /\ muReaders' = muReaders \ {p}
    /\ pc' = [pc EXCEPT ![p] = "idle"]
    /\ arg' = [arg EXCEPT ![p] = Nil]
    /\ UNCHANGED <<muWriter, retMetrics, regLog, fatal>>

\* Get(name): return c.metrics[name], with the deferred c.mu.RUnlock()
GetReturn(p) ==
    /\ ~fatal
    /\ pc[p] = "get"
    /\ retGet' = [retGet EXCEPT ![p] = Lookup(metrics, arg[p].name)]
    /\ raced' = (raced \/ MapBeingWritten)
    /\ muReaders' = muReaders \ {p}
    /\ pc' = [pc EXCEPT ![p] = "idle"]
    /\ arg' = [arg EXCEPT ![p] = Nil]
    /\ UNCHANGED <<metrics, muWriter, retMetrics, regLog, fatal>>

\* Metrics(): c.mu.RLock()
MetricsRLock(p) ==
    /\ ~fatal
    /\ pc[p] = "idle"
    /\ muWriter = NoCaller
    /\ muReaders' = muReaders \cup {p}
    /\ pc' = [pc EXCEPT ![p] = "metrics"]
    /\ retGet' = [retGet EXCEPT ![p] = Nil]
    /\ retMetrics' = [retMetrics EXCEPT ![p] = NoRef]
    /\ UNCHANGED <<metrics, muWriter, arg, regLog, raced, fatal>>

\* a faulty Metrics: return c.metrics, the Collector's own map
MetricsReturn_LiveMap(p) ==
    /\ ~fatal
    /\ pc[p] = "metrics"
    /\ retMetrics' = [retMetrics EXCEPT ![p] = CollectorMapRef]
    /\ raced' = (raced \/ MapBeingWritten)
    /\ muReaders' = muReaders \ {p}
    /\ pc' = [pc EXCEPT ![p] = "idle"]
    /\ UNCHANGED <<metrics, muWriter, arg, retGet, regLog, fatal>>

\* Metrics(): copies every entry into a new map and returns it, with the
\* deferred c.mu.RUnlock()
MetricsReturn(p) ==
    /\ ~fatal
    /\ pc[p] = "metrics"
    /\ retMetrics' = [retMetrics EXCEPT ![p] = CopyRef(metrics)]
    /\ raced' = (raced \/ MapBeingWritten)
    /\ muReaders' = muReaders \ {p}
    /\ pc' = [pc EXCEPT ![p] = "idle"]
    /\ UNCHANGED <<metrics, muWriter, arg, retGet, regLog, fatal>>

\* delete(m, name)
Delete(m, name) == [n \in DOMAIN m \ {name} |-> m[n]]

\* The caller that holds the map a Metrics() returned edits it: it deletes
\* the entry under the name, or, when there is none, adds a metric of its
\* own.  The write goes to the map the reference leads to.
EditReturned(p, name) ==
    /\ ~fatal
    /\ pc[p] = "idle"
    /\ retMetrics[p] # NoRef
    /\ LET held == Deref(retMetrics[p])
           edited == IF name \in DOMAIN held THEN Delete(held, name)
                     ELSE Assign(held, name, Unregistered(name))
       IN  IF retMetrics[p].own
           THEN /\ retMetrics' = [retMetrics EXCEPT ![p] = CopyRef(edited)]
                /\ UNCHANGED metrics
           ELSE /\ metrics' = edited
                /\ UNCHANGED retMetrics
    /\ UNCHANGED <<muWriter, muReaders, pc, arg, retGet, regLog, raced,
                   fatal>>

(* A second Collector, made by a caller with NewCollector().  Its map is   *)
(* its own; the package variable globalCollector never refers to it.       *)

\* metrics that no caller registers into the process-wide Collector
OtherInstances == [name : Names, id : {NumInstances + 1}]

\* other := NewCollector()
OtherCollectorInit == otherMetrics = EmptyMap

\* other.Register(m), the whole call: the entry is made when the name is
\* not present
OtherRegister(m) ==
    /\ ~fatal
    /\ otherMetrics' = IF m.name \in DOMAIN otherMetrics
                       THEN otherMetrics
                       ELSE Assign(otherMetrics, m.name, m)

---------------------------------------------------------------------------
(* StartReporter(interval, reporter), for an interval > 0.  The goroutine  *)
(* creates its ticker and then selects between ticker.C and stop; when     *)
(* both are ready the select takes either one.  Report is the caller's:    *)
(* it is modelled as reading the map it was handed, then returning.        *)

\* the intervals passed to StartReporter, and "no time recorded"
Intervals == {2, 3}
NoTime == 0 - 1

\* stop := make(chan struct{}); go func() {...}(); return stop
ReporterInit ==
    /\ loopPc = "start"
    /\ tickDue = FALSE
    /\ rptActive = 0
    /\ rptArg = NoRef
    /\ rptTick = EmptyMap
    /\ rptSeen = EmptyMap
    /\ reports = 0
    /\ rptFailed = FALSE
    /\ stopClosed = FALSE
    /\ stopper = [s \in Stoppers |-> "idle"]
    /\ stopLate = [s \in Stoppers |-> FALSE]
    /\ stopAt = NoTime
    /\ elapsed = 0
    /\ dropped = 0

\* the stop case of the select can proceed: the channel is closed, or a
\* sender is waiting on it
StopReady == stopClosed \/ \E s \in Stoppers : stopper[s] = "sending"

\* a faulty start: the first tick is due at once, not after one interval
LoopStart_TickAtOnce ==
    /\ ~fatal
    /\ loopPc = "start"
    /\ loopPc' = "select"
    /\ tickDue' = TRUE
    /\ UNCHANGED <<rptActive, rptArg, rptTick, rptSeen, reports>>

\* ticker := time.NewTicker(interval); defer ticker.Stop()
LoopStart ==
    /\ ~fatal
    /\ loopPc = "start"
    /\ loopPc' = "select"
    /\ UNCHANGED <<tickDue, rptActive, rptArg, rptTick, rptSeen, reports>>

\* the runtime timer sends on ticker.C; the tick is dropped when one is
\* already waiting there
Tick ==
    /\ ~fatal
    /\ loopPc \in {"select", "reporting"}
    /\ ~tickDue
    /\ tickDue' = TRUE
    /\ UNCHANGED <<loopPc, rptActive, rptArg, rptTick, rptSeen, reports>>

\* a faulty tick case: "go reporter.Report(...)", and the loop selects again
\* while the Report runs
LoopReport_Spawned ==
    /\ ~fatal
    /\ loopPc = "select"
    /\ tickDue
    /\ tickDue' = FALSE
    /\ loopPc' = "select"
    /\ rptActive' = rptActive + 1
    /\ rptArg' = CollectorMapRef
    /\ rptTick' = metrics
    /\ rptSeen' = EmptyMap
    /\ reports' = IF reports < MaxReports THEN reports + 1 ELSE reports

\* a faulty tick case: Report is handed the mapping of the other Collector
LoopReport_OtherCollector ==
    /\ ~fatal
    /\ loopPc = "select"
    /\ tickDue
    /\ tickDue' = FALSE
    /\ loopPc' = "reporting"
    /\ rptActive' = rptActive + 1
    /\ rptArg' = CopyRef(otherMetrics)
    /\ rptTick' = otherMetrics
    /\ rptSeen' = EmptyMap
    /\ reports' = IF reports < MaxReports THEN reports + 1 ELSE reports

\* case <-ticker.C: reporter.Report(globalCollector.metrics) is entered; the
\* call is made by the loop goroutine itself, which waits for its return
LoopReport ==
    /\ ~fatal
    /\ loopPc = "select"
    /\ tickDue
    /\ tickDue' = FALSE
    /\ loopPc' = "reporting"
    /\ rptActive' = rptActive + 1
    /\ rptArg' = CollectorMapRef
    /\ rptTick' = metrics
    /\ rptSeen' = EmptyMap
    /\ reports' = IF reports < MaxReports THEN reports + 1 ELSE reports

\* Report returns, and the loop selects again
ReportReturn ==
    /\ ~fatal
    /\ loopPc = "reporting"
    /\ loopPc' = "select"
    /\ rptActive' = rptActive - 1
    /\ rptArg' = NoRef
    /\ rptTick' = EmptyMap
    /\ rptSeen' = EmptyMap
    /\ UNCHANGED <<tickDue, reports>>

\* a faulty loop: a deferred recover() around the call catches the panic of
\* a Report, and the loop selects again
ReportPanic_Recovered ==
    /\ ~fatal
    /\ loopPc = "reporting"
    /\ loopPc' = "select"
    /\ rptFailed' = TRUE
    /\ rptActive' = rptActive - 1
    /\ rptArg' = NoRef
    /\ rptTick' = EmptyMap
    /\ rptSeen' = EmptyMap
    /\ UNCHANGED <<tickDue, reports>>

\* Report panics.  The call is made on the loop goroutine with no deferred
\* recover(): the panic unwinds out of the for loop and out of the
\* goroutine's function (running the deferred ticker.Stop()), and a panic
\* that leaves a goroutine ends the process.  Nothing selects again.
ReportPanic ==
    /\ ~fatal
    /\ loopPc = "reporting"
    /\ loopPc' = "panicked"
    /\ rptFailed' = TRUE
    /\ UNCHANGED <<tickDue, rptActive, rptArg, rptTick, rptSeen, reports>>

\* Report reads the map it was handed.  It holds no lock: when the map is
\* the Collector's own and a Register is inside its assignment, the read is
\* a data race, and it sees the map before the assignment, or after it, or
\* the runtime detects the race and throws.
ReportRead ==
    /\ ~fatal
    /\ loopPc = "reporting"
    /\ IF ~rptArg.own /\ MapBeingWritten
       THEN /\ raced' = TRUE
            /\ \E w \in {p \in Callers : pc[p] = "assign"} :
                   \/ rptSeen' = metrics /\ fatal' = FALSE
                   \/ rptSeen' = Assign(metrics, arg[w].name, arg[w])
                          /\ fatal' = FALSE
                   \/ rptSeen' = rptSeen /\ fatal' = TRUE
       ELSE /\ rptSeen' = Deref(rptArg)
            /\ UNCHANGED <<raced, fatal>>
    /\ UNCHANGED <<metrics, muWriter, muReaders, pc, arg, retGet, retMetrics,
                   regLog>>
    /\ UNCHANGED <<loopPc, tickDue, rptActive, rptArg, rptTick, reports,
                   stopVars>>

\* a faulty stop case: the stop signal is also served while a Report is
\* running, which is abandoned
LoopStop_AbandonsReport ==
    /\ ~fatal
    /\ loopPc \in {"select", "reporting"}
    /\ StopReady
    /\ loopPc' = "stopped"
    /\ IF stopClosed
       THEN UNCHANGED stopper
       ELSE \E s \in {t \in Stoppers : stopper[t] = "sending"} :
                stopper' = [stopper EXCEPT ![s] = "returned"]
    /\ UNCHANGED <<tickDue, rptActive, rptArg, rptTick, rptSeen, reports,
                   stopClosed, stopLate, stopAt>>

\* a faulty stop case: "break" leaves the select only, and the loop goes on
LoopStop_BreakSelectOnly ==
    /\ ~fatal
    /\ loopPc = "select"
    /\ StopReady
    /\ IF stopClosed
       THEN UNCHANGED stopper
       ELSE \E s \in {t \in Stoppers : stopper[t] = "sending"} :
                stopper' = [stopper EXCEPT ![s] = "returned"]
    /\ UNCHANGED <<loopVars, stopClosed, stopLate, stopAt>>

\* case <-stop: return, which also stops the ticker.  A receive from the
\* open channel takes the value of one waiting sender, whose send returns.
LoopStop ==
    /\ ~fatal
    /\ loopPc = "select"
    /\ StopReady
    /\ loopPc' = "stopped"
    /\ IF stopClosed
       THEN UNCHANGED stopper
       ELSE \E s \in {t \in Stoppers : stopper[t] = "sending"} :
                stopper' = [stopper EXCEPT ![s] = "returned"]
    /\ UNCHANGED <<tickDue, rptActive, rptArg, rptTick, rptSeen, reports,
                   stopClosed, stopLate, stopAt>>

\* a holder of the stop handle signals it with close(stop): a panic when
\* the channel is closed already; otherwise every blocked sender panics
StopClose(s) ==
    /\ ~fatal
    /\ stopper[s] = "idle"
    /\ stopLate' = [stopLate EXCEPT ![s] = (loopPc = "stopped")]
    /\ stopAt' = IF stopAt = NoTime THEN elapsed ELSE stopAt
    /\ IF stopClosed
       THEN /\ stopper' = [stopper EXCEPT ![s] = "panicked"]
            /\ UNCHANGED stopClosed
       ELSE /\ stopClosed' = TRUE
            /\ stopper' = [t \in Stoppers |->
                    IF t = s THEN "returned"
                    ELSE IF stopper[t] = "sending" THEN "panicked"
                    ELSE stopper[t]]
    /\ UNCHANGED loopVars

\* a holder of the stop handle signals it with stop <- struct{}{}: a panic
\* when the channel is closed; otherwise the send blocks until the loop
\* receives (the channel has no buffer)
StopSend(s) ==
    /\ ~fatal
    /\ stopper[s] = "idle"
    /\ stopLate' = [stopLate EXCEPT ![s] = (loopPc = "stopped")]
    /\ stopAt' = IF stopAt = NoTime THEN elapsed ELSE stopAt
    /\ stopper' = [stopper EXCEPT ![s] =
                      IF stopClosed THEN "panicked" ELSE "sending"]
    /\ UNCHANGED <<loopVars, stopClosed>>

\* One unit of time passes while the loop runs.  The goroutine is taken to
\* run as soon as it can: time passes only while it is inside Report or is
\* blocked in the select with neither case ready.  time.NewTicker(interval)
\* was called at time 0, so the runtime timer sends on ticker.C at every
\* multiple of the interval; ticker.C has room for one tick, and a tick that
\* finds it full is dropped.
Elapse ==
    /\ ~fatal
    /\ elapsed < MaxElapsed
    /\ \/ loopPc = "reporting"
       \/ loopPc = "select" /\ ~tickDue /\ ~StopReady
    /\ elapsed' = elapsed + 1
    /\ IF elapsed' % interval = 0
       THEN /\ tickDue' = TRUE
            /\ dropped' = IF tickDue THEN dropped + 1 ELSE dropped
       ELSE UNCHANGED <<tickDue, dropped>>
    /\ UNCHANGED <<loopPc, rptActive, rptArg, rptTick, rptSeen, reports,
                   interval>>

---------------------------------------------------------------------------
(* work.Pool (src/pkg/work/pool.go).  Start and Stop run their bodies      *)
(* through a sync.Once each: Do runs the function when the Once is fresh,  *)
(* returns at once when it is done, and blocks while another caller is     *)
(* running it.  A worker is a goroutine that selects between the task      *)
(* channel, ctx.Done() and the quit channel.  A task is any Executor; the  *)
(* model keeps the number of tasks in the channel, not what they do.       *)

\* the numWorkers and the taskChannelSize that callers pass to NewPool
\* (NewPool returns an error for numWorkers <= 0 and taskChannelSize < 0)
WorkerCounts == {1, 2}
TaskChannelSizes == {0, 1}

\* the calls of Start and Stop, and the calls of AddTask, that the callers
\* make in all
MaxPoolCalls == 3
MaxTasks == 2

\* NewPool(numWorkers, taskChannelSize)
NewPool(workers, size) ==
    /\ numWorkers = workers
    /\ taskCap = size
    /\ tasksLen = 0
    /\ onceStart = "fresh"
    /\ onceStop = "fresh"
    /\ quitClosed = FALSE
    /\ quitCloses = 0
    /\ poolPanic = FALSE
    /\ ctxDone = FALSE
    /\ wPc = <<>>
    /\ plPc = [p \in Callers |-> "idle"]
    /\ plIdx = [p \in Callers |-> 0]
    /\ startCalls = 0
    /\ stopCalls = 0
    /\ addCalls = 0
    /\ addDropped = 0

\* a faulty Start: p.startWorker(ctx) is called directly, on every call
PoolStart_NoOnce(p) ==
    /\ ~poolPanic
    /\ plPc[p] = "idle"
    /\ startCalls + stopCalls < MaxPoolCalls
    /\ startCalls' = startCalls + 1
    /\ plPc' = [plPc EXCEPT ![p] = "spawning"]
    /\ plIdx' = [plIdx EXCEPT ![p] = 0]
    /\ UNCHANGED <<numWorkers, taskCap, tasksLen, onceStart, onceStop,
                   quitClosed, quitCloses, poolPanic, ctxDone, wPc,
                   stopCalls, addCalls,
                   addDropped>>

\* Start(ctx): p.start.Do(func() { p.startWorker(ctx) }).  The call waits
\* while another caller is inside the Do; it returns at once when the Once
\* is done, and it enters startWorker when the Once is fresh.
PoolStart(p) ==
    /\ ~poolPanic
    /\ plPc[p] = "idle"
    /\ startCalls + stopCalls < MaxPoolCalls
    /\ onceStart # "running"
    /\ startCalls' = startCalls + 1
    /\ IF onceStart = "done"
       THEN UNCHANGED <<onceStart, plPc, plIdx>>
       ELSE /\ onceStart' = "running"
            /\ plPc' = [plPc EXCEPT ![p] = "spawning"]
            /\ plIdx' = [plIdx EXCEPT ![p] = 0]
    /\ UNCHANGED <<numWorkers, taskCap, tasksLen, onceStop, quitClosed,
                   quitCloses, poolPanic, ctxDone, wPc, stopCalls, addCalls,
                   addDropped>>

\* startWorker: one turn of  for i := 0; i < p.numWorkers; i++ { go ... },
\* which starts a worker; the worker begins at its select
StartWorkerSpawn(p) ==
    /\ ~poolPanic
    /\ plPc[p] = "spawning"
    /\ plIdx[p] < numWorkers
    /\ wPc' = Append(wPc, "select")
    /\ plIdx' = [plIdx EXCEPT ![p] = plIdx[p] + 1]
    /\ UNCHANGED <<numWorkers, taskCap, tasksLen, onceStart, onceStop,
                   quitClosed, quitCloses, poolPanic, ctxDone, plPc,
                   startCalls, stopCalls, addCalls,
                   addDropped>>

\* startWorker: the loop ends, startWorker returns, the Once is done and
\* Start returns
StartWorkerReturn(p) ==
    /\ ~poolPanic
    /\ plPc[p] = "spawning"
    /\ plIdx[p] >= numWorkers
    /\ onceStart' = "done"
    /\ plPc' = [plPc EXCEPT ![p] = "idle"]
    /\ UNCHANGED <<numWorkers, taskCap, tasksLen, onceStop, quitClosed,
                   quitCloses, poolPanic, ctxDone, wPc, plIdx, startCalls,
                   stopCalls, addCalls,
                   addDropped>>

\* a faulty Stop: close(p.quit) is called directly, on every call
PoolStop_NoOnce(p) ==
    /\ ~poolPanic
    /\ plPc[p] = "idle"
    /\ startCalls + stopCalls < MaxPoolCalls
    /\ stopCalls' = stopCalls + 1
    /\ plPc' = [plPc EXCEPT ![p] = "closing"]
    /\ UNCHANGED <<numWorkers, taskCap, tasksLen, onceStart, onceStop,
                   quitClosed, quitCloses, poolPanic, ctxDone, wPc, plIdx,
                   startCalls, addCalls,
                   addDropped>>

\* Stop(): p.stop.Do(func() { close(p.quit) }), up to the close
PoolStop(p) ==
    /\ ~poolPanic
    /\ plPc[p] = "idle"
    /\ startCalls + stopCalls < MaxPoolCalls
    /\ onceStop # "running"
    /\ stopCalls' = stopCalls + 1
    /\ IF onceStop = "done"
       THEN UNCHANGED <<onceStop, plPc>>
       ELSE /\ onceStop' = "running"
            /\ plPc' = [plPc EXCEPT ![p] = "closing"]
    /\ UNCHANGED <<numWorkers, taskCap, tasksLen, onceStart, quitClosed,
                   quitCloses, poolPanic, ctxDone, wPc, plIdx, startCalls,
                   addCalls,
                   addDropped>>

\* Stop(): close(p.quit), a panic when the channel is closed already;
\* then the Once is done and Stop returns
PoolStopClose(p) ==
    /\ ~poolPanic
    /\ plPc[p] = "closing"
    /\ quitCloses' = quitCloses + 1
    /\ IF quitClosed
       THEN /\ poolPanic' = TRUE
            /\ UNCHANGED <<quitClosed, onceStop, plPc>>
       ELSE /\ quitClosed' = TRUE
            /\ onceStop' = "done"
            /\ plPc' = [plPc EXCEPT ![p] = "idle"]
            /\ UNCHANGED poolPanic
    /\ UNCHANGED <<numWorkers, taskCap, tasksLen, onceStart, ctxDone, wPc,
                   plIdx, startCalls, stopCalls, addCalls,
                   addDropped>>

\* AddTask(t) is called, and is at its select
AddTaskCall(p) ==
    /\ ~poolPanic
    /\ plPc[p] = "idle"
    /\ addCalls < MaxTasks
    /\ addCalls' = addCalls + 1
    /\ plPc' = [plPc EXCEPT ![p] = "adding"]
    /\ UNCHANGED <<numWorkers, taskCap, tasksLen, onceStart, onceStop,
                   quitClosed, quitCloses, poolPanic, ctxDone, wPc, plIdx,
                   startCalls, stopCalls,
                   addDropped>>

\* AddTask: case p.tasks <- t, into the channel's buffer
AddTaskSend(p) ==
    /\ ~poolPanic
    /\ plPc[p] = "adding"
    /\ tasksLen < taskCap
    /\ tasksLen' = tasksLen + 1
    /\ plPc' = [plPc EXCEPT ![p] = "idle"]
    /\ UNCHANGED <<numWorkers, taskCap, onceStart, onceStop, quitClosed,
                   quitCloses, poolPanic, ctxDone, wPc, plIdx, startCalls,
                   stopCalls, addCalls,
                   addDropped>>

\* AddTask: case p.tasks <- t, straight to a worker that waits in its
\* select (the channel is empty), which goes on to task.Execute()
AddTaskHandOver(p, w) ==
    /\ ~poolPanic
    /\ plPc[p] = "adding"
    /\ tasksLen = 0
    /\ w \in 1..Len(wPc)
    /\ wPc[w] = "select"
    /\ wPc' = [wPc EXCEPT ![w] = "executing"]
    /\ plPc' = [plPc EXCEPT ![p] = "idle"]
    /\ UNCHANGED <<numWorkers, taskCap, tasksLen, onceStart, onceStop,
                   quitClosed, quitCloses, poolPanic, ctxDone, plIdx,
                   startCalls, stopCalls, addCalls,
                   addDropped>>

\* a faulty AddTask: the send p.tasks <- t stands alone, in no select, and
\* the quit channel is never looked at
AddTaskQuit_NoSelect(p) ==
    /\ ~poolPanic
    /\ plPc[p] = "adding"
    /\ FALSE
    /\ UNCHANGED poolVars

\* AddTask: case <-p.quit, and the task is dropped
AddTaskQuit(p) ==
    /\ ~poolPanic
    /\ plPc[p] = "adding"
    /\ quitClosed
    /\ addDropped' = addDropped + 1
    /\ plPc' = [plPc EXCEPT ![p] = "idle"]
    /\ UNCHANGED <<numWorkers, taskCap, tasksLen, onceStart, onceStop,
                   quitClosed, quitCloses, poolPanic, ctxDone, wPc, plIdx,
                   startCalls, stopCalls, addCalls>>

\* worker: case task, ok := <-p.tasks, from the buffer; then task.Execute()
WorkerReceive(w) ==
    /\ ~poolPanic
    /\ w \in 1..Len(wPc)
    /\ wPc[w] = "select"
    /\ tasksLen > 0
    /\ tasksLen' = tasksLen - 1
    /\ wPc' = [wPc EXCEPT ![w] = "executing"]
    /\ UNCHANGED <<numWorkers, taskCap, onceStart, onceStop, quitClosed,
                   quitCloses, poolPanic, ctxDone, plPc, plIdx, startCalls,
                   stopCalls, addCalls,
                   addDropped>>

\* worker: task.Execute() returns (and task.OnError(err) after an error),
\* and the worker selects again
WorkerExecuted(w) ==
    /\ ~poolPanic
    /\ w \in 1..Len(wPc)
    /\ wPc[w] = "executing"
    /\ wPc' = [wPc EXCEPT ![w] = "select"]
    /\ UNCHANGED <<numWorkers, taskCap, tasksLen, onceStart, onceStop,
                   quitClosed, quitCloses, poolPanic, ctxDone, plPc, plIdx,
                   startCalls, stopCalls, addCalls,
                   addDropped>>

\* worker: case <-ctx.Done(): return
WorkerCtxDone(w) ==
    /\ ~poolPanic
    /\ w \in 1..Len(wPc)
    /\ wPc[w] = "select"
    /\ ctxDone
    /\ wPc' = [wPc EXCEPT ![w] = "exited"]
    /\ UNCHANGED <<numWorkers, taskCap, tasksLen, onceStart, onceStop,
                   quitClosed, quitCloses, poolPanic, ctxDone, plPc, plIdx,
                   startCalls, stopCalls, addCalls,
                   addDropped>>

\* worker: case <-p.quit: return
WorkerQuit(w) ==
    /\ ~poolPanic
    /\ w \in 1..Len(wPc)
    /\ wPc[w] = "select"
    /\ quitClosed
    /\ wPc' = [wPc EXCEPT ![w] = "exited"]
    /\ UNCHANGED <<numWorkers, taskCap, tasksLen, onceStart, onceStop,
                   quitClosed, quitCloses, poolPanic, ctxDone, plPc, plIdx,
                   startCalls, stopCalls, addCalls,
                   addDropped>>

\* the owner of the ctx given to Start cancels it
CtxCancel ==
    /\ ~poolPanic
    /\ ~ctxDone
    /\ ctxDone' = TRUE
    /\ UNCHANGED <<numWorkers, taskCap, tasksLen, onceStart, onceStop,
                   quitClosed, quitCloses, poolPanic, wPc, plPc, plIdx,
                   startCalls, stopCalls, addCalls,
                   addDropped>>

---------------------------------------------------------------------------
(* rest.Request (src/rest/rest.go).  Send() is one sequential call; its    *)
(* steps are the checks before the loop, the head of the loop with the     *)
(* making of the http.Request, the call of client.Do, what follows the     *)
(* loop, and the reading of the body.  What client.Do and io.ReadAll       *)
(* return is the network's choice.                                         *)

\* const maxRetries, the retries of a NewRequest()
maxRetries == 3

\* the largest count given to SetRetries, besides the default
MaxSetRetries == 1

\* the methods given to MustMethod: none, a valid one, and one that
\* http.NewRequestWithContext rejects; the counts given to SetRetries
Methods == {"", "GET", "G T"}
RetryCounts == ((0 - 1)..MaxSetRetries) \cup {maxRetries}

\* the err of client.Do: nil, a *url.Error that is a timeout, one that is
\* temporary, another *url.Error, and an error that is no *url.Error
NoErr == "nil"
DoErrors == {NoErr, "url timeout", "url temporary", "url other", "other"}

\* func shouldRetry(err error) bool
shouldRetry(err) == err \in {"url timeout", "url temporary"}

\* NewRequest().MustMethod(method).SetRetries(retries), with
\* AddMultipartFile when there are files; Send() has not been called
RequestInit(method, files, retries) ==
    /\ rqMethod = method
    /\ rqFiles = files
    /\ rqRetries = retries
    /\ sendPc = "idle"
    /\ sendAttempt = 0
    /\ sendErr = NoErr
    /\ sendResp = FALSE
    /\ sendResult = "none"
    /\ sendTried = <<>>

\* NewRequest()
NewRequest == RequestInit("GET", "none", maxRetries)

\* Send(), up to the loop: the method must not be empty, and
\* prepareMultipart must open every file
SendCall ==
    /\ sendPc = "idle"
    /\ IF rqMethod = "" \/ rqFiles = "missing"
       THEN /\ sendPc' = "returned"
            /\ sendResult' = "error"
       ELSE /\ sendPc' = "loop"
            /\ UNCHANGED sendResult
    /\ sendAttempt' = 0
    /\ UNCHANGED <<rqMethod, rqFiles, rqRetries, sendErr, sendResp, sendTried>>

\* the head of the loop, attempt <= r.retries, and in the loop
\* http.NewRequestWithContext, whose error Send returns
SendLoop ==
    /\ sendPc = "loop"
    /\ IF sendAttempt <= rqRetries
       THEN IF rqMethod = "G T"
            THEN /\ sendPc' = "returned"
                 /\ sendResult' = "error"
            ELSE /\ sendPc' = "do"
                 /\ UNCHANGED sendResult
       ELSE /\ sendPc' = "after"
            /\ UNCHANGED sendResult
    /\ UNCHANGED <<rqMethod, rqFiles, rqRetries, sendAttempt, sendErr,
                   sendResp, sendTried>>

\* a faulty loop: every error of client.Do is retried
SendDo_RetriesEveryError(err) ==
    /\ sendPc = "do"
    /\ sendTried' = Append(sendTried, err)
    /\ sendErr' = err
    /\ sendResp' = (err = NoErr)
    /\ IF err # NoErr /\ sendAttempt < rqRetries
       THEN /\ sendAttempt' = sendAttempt + 1
            /\ sendPc' = "loop"
       ELSE /\ sendPc' = "after"
            /\ UNCHANGED sendAttempt
    /\ UNCHANGED <<rqMethod, rqFiles, rqRetries, sendResult>>

\* resp, err = r.client.Do(req); then either the sleep and "continue"
\* (with attempt++), or "break"
SendDo(err) ==
    /\ sendPc = "do"
    /\ sendTried' = Append(sendTried, err)
    /\ sendErr' = err
    /\ sendResp' = (err = NoErr)
    /\ IF shouldRetry(err) /\ sendAttempt < rqRetries
       THEN /\ sendAttempt' = sendAttempt + 1
            /\ sendPc' = "loop"
       ELSE /\ sendPc' = "after"
            /\ UNCHANGED sendAttempt
    /\ UNCHANGED <<rqMethod, rqFiles, rqRetries, sendResult>>

\* after the loop: the error of the last client.Do is returned; without
\* one, defer resp.Body.Close() and io.ReadAll(resp.Body) use resp, a nil
\* pointer when the loop made no attempt, and the goroutine panics
SendAfter ==
    /\ sendPc = "after"
    /\ IF sendErr # NoErr
       THEN /\ sendPc' = "returned"
            /\ sendResult' = "error"
       ELSE IF ~sendResp
            THEN /\ sendPc' = "panicked"
                 /\ UNCHANGED sendResult
            ELSE /\ sendPc' = "read"
                 /\ UNCHANGED sendResult
    /\ UNCHANGED <<rqMethod, rqFiles, rqRetries, sendAttempt, sendErr,
                   sendResp, sendTried>>

\* body, err := io.ReadAll(resp.Body), and the return of the Response or
\* of the error of the read
SendRead(failed) ==
    /\ sendPc = "read"
    /\ sendPc' = "returned"
    /\ sendResult' = IF failed THEN "error" ELSE "response"
    /\ UNCHANGED <<rqMethod, rqFiles, rqRetries, sendAttempt, sendErr,
                   sendResp, sendTried>>

---------------------------------------------------------------------------
(* Specifications *)

\* the state after construction, for the constructor arguments given
InitCore(buckets, quantiles) ==
    /\ interval \in Intervals
    /\ \A d \in Intervals : interval <= d
    /\ CounterInit
    /\ GaugeInit
    /\ NewHistogram(buckets)
    /\ NewSummary(quantiles)
    /\ CollectorInit
    /\ OtherCollectorInit
    /\ ReporterInit
    /\ SummaryCallerInit

\* the same, beside a Pool that is not used
InitAround(buckets, quantiles) ==
    /\ InitCore(buckets, quantiles)
    /\ NewPool(1, 0)
    /\ NewRequest

InitWith(buckets, quantiles) ==
    /\ InitAround(buckets, quantiles)
    /\ HistogramCallerInit(<<>>)

Init == InitWith(<<>>, {})

\* callers of one Counter, in any interleaving
NextCounter ==
    \/ \E p \in Callers : CounterInc(p) /\ UNCHANGED exceptCounter
    \/ \E p \in Callers, delta \in CounterDeltas :
            CounterAdd(p, delta) /\ UNCHANGED exceptCounter
    \/ \E p \in Callers : CounterReset(p) /\ UNCHANGED exceptCounter
    \/ \E p \in Callers : CounterValue(p) /\ UNCHANGED exceptCounter

SpecCounter == Init /\ [][NextCounter]_vars

\* callers of one Gauge, in any interleaving
NextGauge ==
    \/ \E p \in Callers, value \in GaugeSetArgs :
            GaugeSet(p, value) /\ UNCHANGED exceptGauge
    \/ \E p \in Callers, delta \in GaugeAddArgs :
            GaugeAdd(p, delta) /\ UNCHANGED exceptGauge
    \/ \E p \in Callers, delta \in GaugeSubArgs :
            GaugeSub(p, delta) /\ UNCHANGED exceptGauge
    \/ \E p \in Callers : GaugeValue(p) /\ UNCHANGED exceptGauge

SpecGauge == Init /\ [][NextGauge]_vars

\* one caller of one Gauge: its calls come one after the other
NextGaugeSequential ==
    \/ \E value \in GaugeSetArgs : GaugeSet(1, value) /\ UNCHANGED exceptGauge
    \/ \E delta \in GaugeDeltas : GaugeAdd(1, delta) /\ UNCHANGED exceptGauge
    \/ \E delta \in GaugeDeltas : GaugeSub(1, delta) /\ UNCHANGED exceptGauge
    \/ GaugeValue(1) /\ UNCHANGED exceptGauge

SpecGaugeSequential == Init /\ [][NextGaugeSequential]_vars

\* Observe calls on one Histogram, one after the other
NextHistogram ==
    \E value \in ObserveValues :
        HistogramObserve(value) /\ UNCHANGED exceptHistogram

InitHistogram == \E buckets \in BoundInputs : InitWith(buckets, {})

SpecHistogram == InitHistogram /\ [][NextHistogram]_vars

\* one caller that passes its bounds in any order, observes, and reads
\* Buckets() and Value()
NextHistogramBounds ==
    \/ \E value \in SequentialValues :
            HistogramObserve(value) /\ UNCHANGED <<histogramHeld, exceptSlices>>
    \/ HistogramBuckets /\ UNCHANGED exceptSlices
    \/ HistogramValue /\ UNCHANGED exceptSlices

InitHistogramBounds ==
    \E buckets \in PermutedBounds :
        InitAround(buckets, {}) /\ HistogramCallerInit(buckets)

SpecHistogramBounds == InitHistogramBounds /\ [][NextHistogramBounds]_vars

\* one caller that keeps the slice it passed to NewHistogram and the
\* slices Buckets() returns, writes into them, and calls the methods
NextBucketSlices ==
    \/ \E value \in SequentialValues :
            HistogramObserve(value) /\ UNCHANGED <<histogramHeld, exceptSlices>>
    \/ HistogramBuckets /\ UNCHANGED exceptSlices
    \/ HistogramValue /\ UNCHANGED exceptSlices
    \/ HistogramSum /\ UNCHANGED exceptSlices
    \/ HistogramCount /\ UNCHANGED exceptSlices
    \/ \E i \in 1..MaxBuckets :
            WritePassed(i, WrittenValue) /\ UNCHANGED exceptSlices
    \/ \E i \in 1..MaxBuckets :
            WriteReturnedBuckets(i, WrittenValue) /\ UNCHANGED exceptSlices

InitBucketSlices ==
    \E buckets \in ConcurrentBounds :
        InitAround(buckets, {}) /\ HistogramCallerInit(buckets)

SpecBucketSlices == InitBucketSlices /\ [][NextBucketSlices]_vars

\* one caller that keeps the slice it passed to NewHistogram, writes into
\* it, and observes
RewrittenBounds == {<<5, 10>>, <<30, 5>>, <<50, 10, 30>>}

NextBoundsRewritten ==
    \/ \E value \in SequentialValues :
            HistogramObserve(value) /\ UNCHANGED <<histogramHeld, exceptSlices>>
    \/ \E i \in 1..MaxBuckets :
            WritePassed(i, WrittenValue) /\ UNCHANGED exceptSlices

InitBoundsRewritten ==
    \E buckets \in {b \in RewrittenBounds : Len(b) <= MaxBuckets} :
        InitAround(buckets, {}) /\ HistogramCallerInit(buckets)

SpecBoundsRewritten == InitBoundsRewritten /\ [][NextBoundsRewritten]_vars

\* one caller that observes, keeps the slices Value() returns and writes
\* into them
NextCountSlices ==
    \/ \E value \in SequentialValues :
            HistogramObserve(value) /\ UNCHANGED <<histogramHeld, exceptSlices>>
    \/ HistogramValue /\ UNCHANGED exceptSlices
    \/ \E i \in 1..MaxBuckets :
            WriteReturnedCounts(i, WrittenValue) /\ UNCHANGED exceptSlices

SpecCountSlices == InitBucketSlices /\ [][NextCountSlices]_vars

\* concurrent callers of Observe, Value and Sum on one Histogram
NextHistogramCallers ==
    \/ \E p \in Callers, value \in ConcurrentValues :
            ObserveCall(p, value) /\ UNCHANGED exceptHistogram
    \/ \E p \in Callers : ObserveLock(p) /\ UNCHANGED exceptHistogram
    \/ \E p \in Callers : ObserveCount(p) /\ UNCHANGED exceptHistogram
    \/ \E p \in Callers : ObserveSum(p) /\ UNCHANGED exceptHistogram
    \/ \E p \in Callers : ObserveBucket(p) /\ UNCHANGED exceptHistogram
    \/ \E p \in Callers : ObserveStore(p) /\ UNCHANGED exceptHistogram
    \/ \E p \in Callers : ObserveUnlock(p) /\ UNCHANGED exceptHistogram
    \/ \E p \in Callers : ReadCall(p) /\ UNCHANGED exceptHistogram
    \/ \E p \in Callers : ReadLock(p) /\ UNCHANGED exceptHistogram
    \/ \E p \in Callers : ReadReturn(p) /\ UNCHANGED exceptHistogram

InitHistogramCallers ==
    \E buckets \in ConcurrentBounds : InitWith(buckets, {})

SpecHistogramCallers == InitHistogramCallers /\ [][NextHistogramCallers]_vars

\* Observe, Reset and Quantiles calls on one Summary, one after the other
NextSummary ==
    \/ \E value \in SampleValues :
            SummaryObserve(value) /\ UNCHANGED exceptSummary
    \/ SummaryReset /\ UNCHANGED exceptSummary
    \/ SummaryQuantiles /\ UNCHANGED exceptSummary

InitSummary ==
    \E quantiles \in SUBSET QuantileTargets : InitWith(<<>>, quantiles)

SpecSummary == InitSummary /\ [][NextSummary]_vars

\* one caller of one Summary that also reads Value(), Sum() and Count()
NextSummaryReads ==
    \/ \E value \in ConcurrentSamples :
            SummaryObserve(value) /\ UNCHANGED exceptSummary
    \/ SummaryReset /\ UNCHANGED exceptSummary
    \/ SummaryQuantiles /\ UNCHANGED exceptSummary
    \/ SummaryValue /\ UNCHANGED exceptSummaryHeld
    \/ SummarySum /\ UNCHANGED exceptSummaryHeld
    \/ SummaryCount /\ UNCHANGED exceptSummaryHeld

InitSummaryReads ==
    \E quantiles \in SequentialTargets : InitWith(<<>>, quantiles)

SpecSummaryReads == InitSummaryReads /\ [][NextSummaryReads]_vars

\* calls on one Counter and on one Summary, one after the other, with
\* Reset among them
NextReset ==
    \/ \E p \in Callers : CounterInc(p) /\ UNCHANGED exceptCounter
    \/ \E p \in Callers :
            CounterAdd(p, MaxUint64) /\ UNCHANGED exceptCounter
    \/ \E p \in Callers : CounterReset(p) /\ UNCHANGED exceptCounter
    \/ \E value \in ConcurrentSamples :
            SummaryObserve(value) /\ UNCHANGED exceptSummary
    \/ SummaryReset /\ UNCHANGED exceptSummary

SpecReset == Init /\ [][NextReset]_vars

\* concurrent callers of Observe and Reset on one Summary
NextSummaryCallers ==
    \/ \E p \in Callers, value \in ConcurrentSamples :
            SummaryObserveCall(p, value) /\ UNCHANGED exceptSummary
    \/ \E p \in Callers : SummaryObserveLock(p) /\ UNCHANGED exceptSummary
    \/ \E p \in Callers : SummaryObserveAppend(p) /\ UNCHANGED exceptSummary
    \/ \E p \in Callers : SummaryObserveSum(p) /\ UNCHANGED exceptSummary
    \/ \E p \in Callers : SummaryObserveCount(p) /\ UNCHANGED exceptSummary
    \/ \E p \in Callers : SummaryResetCall(p) /\ UNCHANGED exceptSummary
    \/ \E p \in Callers : SummaryResetLock(p) /\ UNCHANGED exceptSummary
    \/ \E p \in Callers : SummaryResetValues(p) /\ UNCHANGED exceptSummary
    \/ \E p \in Callers : SummaryResetSum(p) /\ UNCHANGED exceptSummary
    \/ \E p \in Callers : SummaryResetCount(p) /\ UNCHANGED exceptSummary
    \/ \E p \in Callers : SummaryUnlock(p) /\ UNCHANGED exceptSummary

SpecSummaryCallers == Init /\ [][NextSummaryCallers]_vars

\* a caller of Quantiles that runs concurrently with the callers of
\* Observe and Reset
NextQuantilesCallers ==
    \/ \E p \in Observers, value \in ConcurrentSamples :
            SummaryObserveCall(p, value) /\ UNCHANGED exceptSummary
    \/ \E p \in Observers : SummaryObserveLock(p) /\ UNCHANGED exceptSummary
    \/ \E p \in Observers : SummaryObserveAppend(p) /\ UNCHANGED exceptSummary
    \/ \E p \in Observers : SummaryObserveSum(p) /\ UNCHANGED exceptSummary
    \/ \E p \in Observers : SummaryObserveCount(p) /\ UNCHANGED exceptSummary
    \/ \E p \in Observers : SummaryResetCall(p) /\ UNCHANGED exceptSummary
    \/ \E p \in Observers : SummaryResetLock(p) /\ UNCHANGED exceptSummary
    \/ \E p \in Observers : SummaryResetValues(p) /\ UNCHANGED exceptSummary
    \/ \E p \in Observers : SummaryResetSum(p) /\ UNCHANGED exceptSummary
    \/ \E p \in Observers : SummaryResetCount(p) /\ UNCHANGED exceptSummary
    \/ \E p \in Observers : SummaryUnlock(p) /\ UNCHANGED exceptSummary
    \/ SummaryQuantilesCall(QuantilesCaller)
            /\ UNCHANGED exceptSummaryHeld
    \/ SummaryQuantilesLock(QuantilesCaller)
            /\ UNCHANGED exceptSummaryHeld
    \/ SummaryQuantilesMake(QuantilesCaller)
            /\ UNCHANGED exceptSummaryHeld
    \/ SummaryQuantilesCopy(QuantilesCaller)
            /\ UNCHANGED exceptSummaryHeld
    \/ SummaryQuantilesReturn(QuantilesCaller)
            /\ UNCHANGED exceptSummaryHeld

InitQuantilesCallers ==
    \E quantiles \in ConcurrentTargets : InitWith(<<>>, quantiles)

SpecQuantilesCallers == InitQuantilesCallers /\ [][NextQuantilesCallers]_vars

\* callers of one Collector, in any interleaving
NextRegistry ==
    \/ \E p \in Callers, m \in MetricInstances :
            RegisterLock(p, m) /\ UNCHANGED callersFrame
    \/ \E p \in Callers :
            RegisterAssign(p) /\ UNCHANGED callersFrame
    \/ \E p \in Callers :
            RegisterUnlock(p) /\ UNCHANGED callersFrame
    \/ \E p \in Callers, name \in Names :
            GetRLock(p, name) /\ UNCHANGED callersFrame
    \/ \E p \in Callers :
            GetReturn(p) /\ UNCHANGED callersFrame
    \/ \E p \in Callers :
            MetricsRLock(p) /\ UNCHANGED callersFrame
    \/ \E p \in Callers :
            MetricsReturn(p) /\ UNCHANGED callersFrame

SpecRegistry == Init /\ [][NextRegistry]_vars

\* callers that register, take snapshots with Metrics() and edit the maps
\* they were given
NextSnapshots ==
    \/ \E p \in Callers, name \in Names :
            RegisterLock(p, OneInstance(name)) /\ UNCHANGED callersFrame
    \/ \E p \in Callers : RegisterAssign(p) /\ UNCHANGED callersFrame
    \/ \E p \in Callers : RegisterUnlock(p) /\ UNCHANGED callersFrame
    \/ \E p \in Callers : MetricsRLock(p) /\ UNCHANGED callersFrame
    \/ \E p \in Callers : MetricsReturn(p) /\ UNCHANGED callersFrame
    \/ \E p \in Callers, name \in Names :
            EditReturned(p, name) /\ UNCHANGED callersFrame

SpecSnapshots == Init /\ [][NextSnapshots]_vars

\* callers that register and look names up with Get, with a record of
\* what every Get returned
NextLookups ==
    \/ \E p \in Callers, name \in Names :
            RegisterLock(p, OneInstance(name)) /\ UNCHANGED callersFrame
    \/ \E p \in Callers : RegisterAssign(p) /\ UNCHANGED callersFrame
    \/ \E p \in Callers : RegisterUnlock(p) /\ UNCHANGED callersFrame
    \/ \E p \in Callers, name \in Names :
            GetRLock(p, name) /\ UNCHANGED callersFrame
    \/ \E p \in Callers :
            /\ GetReturn(p)
            /\ gets' = gets \cup {<<arg[p].name, retGet'[p]>>}
            /\ UNCHANGED <<metricVars, loopVars, stopVars, timerVars, heldVars,
                           outerVars>>

SpecLookups == Init /\ [][NextLookups]_vars

\* callers that race to register different metrics under one name, and
\* read with Get and Metrics
NextRaces ==
    \/ \E p \in Callers, m \in RacingInstances :
            RegisterLock(p, m) /\ UNCHANGED callersFrame
    \/ \E p \in Callers : RegisterAssign(p) /\ UNCHANGED callersFrame
    \/ \E p \in Callers : RegisterUnlock(p) /\ UNCHANGED callersFrame
    \/ \E p \in Callers, name \in Names :
            GetRLock(p, name) /\ UNCHANGED callersFrame
    \/ \E p \in Callers : GetReturn(p) /\ UNCHANGED callersFrame
    \/ \E p \in Callers : MetricsRLock(p) /\ UNCHANGED callersFrame
    \/ \E p \in Callers : MetricsReturn(p) /\ UNCHANGED callersFrame

SpecRaces == Init /\ [][NextRaces]_vars

\* callers of the process-wide Collector, in any interleaving with each
\* other and with the reporter loop (whose stop handle is not signalled)
NextReporting ==
    \/ NextRegistry
    \/ LoopStart /\ UNCHANGED loopFrame
    \/ Tick /\ UNCHANGED loopFrame
    \/ LoopReport /\ UNCHANGED loopFrame
    \/ ReportRead /\ UNCHANGED <<metricVars, timerVars, lookupVars, heldVars,
      outerVars>>
    \/ ReportReturn /\ UNCHANGED loopFrame

SpecReporting == Init /\ [][NextReporting]_vars

\* callers that register into the process-wide Collector and into a
\* Collector of their own, while the reporter loop runs
NextTwoCollectors ==
    \/ \E p \in Callers, name \in Names :
            RegisterLock(p, OneInstance(name)) /\ UNCHANGED callersFrame
    \/ \E p \in Callers : RegisterAssign(p) /\ UNCHANGED callersFrame
    \/ \E p \in Callers : RegisterUnlock(p) /\ UNCHANGED callersFrame
    \/ \E m \in {OneInstance("a")} \cup OtherInstances :
            /\ OtherRegister(m)
            /\ UNCHANGED <<metricVars, registryVars, loopVars, stopVars,
                           timerVars, lookupVars, heldVars, failVars,
                           poolVars, restVars>>
    \/ LoopStart /\ UNCHANGED loopFrame
    \/ Tick /\ UNCHANGED loopFrame
    \/ LoopReport /\ UNCHANGED loopFrame
    \/ ReportRead
        /\ UNCHANGED <<metricVars, timerVars, lookupVars, heldVars, outerVars>>
    \/ ReportReturn /\ UNCHANGED loopFrame

SpecTwoCollectors == Init /\ [][NextTwoCollectors]_vars

\* the reporter loop and the holders of its stop handle
NextReporter ==
    \/ LoopStart /\ UNCHANGED loopFrame
    \/ Tick /\ UNCHANGED loopFrame
    \/ LoopReport /\ UNCHANGED loopFrame
    \/ ReportReturn /\ UNCHANGED loopFrame
    \/ LoopStop /\ UNCHANGED stopFrame
    \/ \E s \in Stoppers : StopClose(s) /\ UNCHANGED stopFrame
    \/ \E s \in Stoppers : StopSend(s) /\ UNCHANGED stopFrame

SpecReporter == Init /\ [][NextReporter]_vars

\* the reporter loop with a Report that may panic, and the holders of the
\* stop handle, which run for as long as the process does
NextFailingReporter ==
    \/ LoopStart /\ UNCHANGED loopFrame
    \/ Tick /\ UNCHANGED loopFrame
    \/ LoopReport /\ UNCHANGED loopFrame
    \/ ReportReturn /\ UNCHANGED loopFrame
    \/ ReportPanic
        /\ UNCHANGED <<metricVars, registryVars, stopVars, timerVars,
                       lookupVars, heldVars, otherVars, poolVars,
                       restVars>>
    \/ LoopStop /\ UNCHANGED stopFrame
    \/ \E s \in Stoppers :
            loopPc # "panicked" /\ StopClose(s) /\ UNCHANGED stopFrame
    \/ \E s \in Stoppers :
            loopPc # "panicked" /\ StopSend(s) /\ UNCHANGED stopFrame

SpecFailingReporter == Init /\ [][NextFailingReporter]_vars

\* the reporter loop, the holders of its stop handle, and the passing of
\* time, for every interval: the timer's sends are part of Elapse
NextTimedReporter ==
    \/ LoopStart /\ UNCHANGED loopFrame
    \/ Elapse
        /\ UNCHANGED <<metricVars, registryVars, stopVars, lookupVars, heldVars,
      outerVars>>
    \/ LoopReport /\ UNCHANGED loopFrame
    \/ ReportReturn /\ UNCHANGED loopFrame
    \/ LoopStop /\ UNCHANGED stopFrame
    \/ \E s \in Stoppers : StopClose(s) /\ UNCHANGED stopFrame
    \/ \E s \in Stoppers : StopSend(s) /\ UNCHANGED stopFrame

InitTimedReporter ==
    /\ interval \in Intervals
    /\ CounterInit
    /\ GaugeInit
    /\ NewHistogram(<<>>)
    /\ NewSummary({})
    /\ CollectorInit
    /\ OtherCollectorInit
    /\ ReporterInit
    /\ HistogramCallerInit(<<>>)
    /\ SummaryCallerInit
    /\ NewPool(1, 0)
    /\ NewRequest

SpecTimedReporter == InitTimedReporter /\ [][NextTimedReporter]_vars

\* callers that call Start, Stop and AddTask of one Pool in any
\* interleaving, the workers of the Pool, and the owner of the ctx
NextPool ==
    \/ \E p \in Callers : PoolStart(p) /\ UNCHANGED exceptPool
    \/ \E p \in Callers : StartWorkerSpawn(p) /\ UNCHANGED exceptPool
    \/ \E p \in Callers : StartWorkerReturn(p) /\ UNCHANGED exceptPool
    \/ \E p \in Callers : PoolStop(p) /\ UNCHANGED exceptPool
    \/ \E p \in Callers : PoolStopClose(p) /\ UNCHANGED exceptPool
    \/ \E p \in Callers : AddTaskCall(p) /\ UNCHANGED exceptPool
    \/ \E p \in Callers : AddTaskSend(p) /\ UNCHANGED exceptPool
    \/ \E p \in Callers, w \in 1..Len(wPc) :
            AddTaskHandOver(p, w) /\ UNCHANGED exceptPool
    \/ \E p \in Callers : AddTaskQuit(p) /\ UNCHANGED exceptPool
    \/ \E w \in 1..Len(wPc) : WorkerReceive(w) /\ UNCHANGED exceptPool
    \/ \E w \in 1..Len(wPc) : WorkerExecuted(w) /\ UNCHANGED exceptPool
    \/ \E w \in 1..Len(wPc) : WorkerCtxDone(w) /\ UNCHANGED exceptPool
    \/ \E w \in 1..Len(wPc) : WorkerQuit(w) /\ UNCHANGED exceptPool
    \/ CtxCancel /\ UNCHANGED exceptPool

InitPool ==
    \E workers \in WorkerCounts, size \in TaskChannelSizes :
        /\ InitCore(<<>>, {})
        /\ HistogramCallerInit(<<>>)
        /\ NewPool(workers, size)
        /\ NewRequest

SpecPool == InitPool /\ [][NextPool]_vars

\* one Send() on a Request, for every Request and every network
NextSend ==
    \/ SendCall /\ UNCHANGED exceptRest
    \/ SendLoop /\ UNCHANGED exceptRest
    \/ \E err \in DoErrors : SendDo(err) /\ UNCHANGED exceptRest
    \/ SendAfter /\ UNCHANGED exceptRest
    \/ \E failed \in BOOLEAN : SendRead(failed) /\ UNCHANGED exceptRest

InitSend ==
    \E method \in Methods, files \in {"none", "present", "missing"},
       retries \in RetryCounts :
        /\ InitCore(<<>>, {})
        /\ HistogramCallerInit(<<>>)
        /\ NewPool(1, 0)
        /\ RequestInit(method, files, retries)

SpecSend == InitSend /\ [][NextSend]_vars

\* one caller that owns the Pool and calls its Start and Stop, in any
\* order and any number of times, while the other callers add tasks
PoolOwner == 1
Adders == Callers \ {PoolOwner}

NextOwnedPool ==
    \/ PoolStart(PoolOwner) /\ UNCHANGED exceptPool
    \/ StartWorkerSpawn(PoolOwner) /\ UNCHANGED exceptPool
    \/ StartWorkerReturn(PoolOwner) /\ UNCHANGED exceptPool
    \/ PoolStop(PoolOwner) /\ UNCHANGED exceptPool
    \/ PoolStopClose(PoolOwner) /\ UNCHANGED exceptPool
    \/ \E p \in Adders : AddTaskCall(p) /\ UNCHANGED exceptPool
    \/ \E p \in Adders : AddTaskSend(p) /\ UNCHANGED exceptPool
    \/ \E p \in Adders, w \in 1..Len(wPc) :
            AddTaskHandOver(p, w) /\ UNCHANGED exceptPool
    \/ \E p \in Adders : AddTaskQuit(p) /\ UNCHANGED exceptPool
    \/ \E w \in 1..Len(wPc) : WorkerReceive(w) /\ UNCHANGED exceptPool
    \/ \E w \in 1..Len(wPc) : WorkerExecuted(w) /\ UNCHANGED exceptPool
    \/ \E w \in 1..Len(wPc) : WorkerCtxDone(w) /\ UNCHANGED exceptPool
    \/ \E w \in 1..Len(wPc) : WorkerQuit(w) /\ UNCHANGED exceptPool
    \/ CtxCancel /\ UNCHANGED exceptPool

\* the indices of the workers that a Pool can have
Workers == UNION {1..n : n \in WorkerCounts}

\* The scheduler runs every goroutine that can take a step: a caller that
\* is inside Stop goes on, and a select with a ready case
\* proceeds.  A worker whose select finds the quit case ready again and
\* again takes it in the end (Go chooses among the ready cases uniformly
\* at random).  Nothing is assumed of task.Execute, which may never return,
\* nor of the callers making any call.
SpecPoolFair ==
    /\ InitPool /\ [][NextOwnedPool]_vars
    /\ WF_vars(PoolStopClose(PoolOwner) /\ UNCHANGED exceptPool)
    /\ \A p \in Adders :
           /\ WF_vars(/\ \/ AddTaskSend(p)
                         \/ AddTaskQuit(p)
                         \/ \E w \in Workers : AddTaskHandOver(p, w)
                      /\ UNCHANGED exceptPool)
    /\ \A w \in Workers : SF_vars(WorkerQuit(w) /\ UNCHANGED exceptPool)

\* The scheduler runs the loop goroutine, every Report returns, and a
\* select that finds the stop case ready again and again takes it in the end
\* (Go chooses among the ready cases uniformly at random).
SpecReporterFair ==
    /\ SpecReporter
    /\ WF_vars(LoopStart /\ UNCHANGED loopFrame)
    /\ WF_vars(ReportReturn /\ UNCHANGED loopFrame)
    /\ SF_vars(LoopStop /\ UNCHANGED stopFrame)

---------------------------------------------------------------------------
(* Properties of the Counter *)

OnlyInc(log) == \A i \in 1..Len(log) : log[i].op = "Inc"

\* C1: as long as the only calls made on a fresh Counter are Inc(), made by
\* any callers in any interleaving, the value is exactly the number of Inc()
\* calls that have completed, and every Value() returned the number of Inc()
\* calls completed when it was read: no increment is lost.
C1_NoLostIncrement ==
    OnlyInc(cLog) =>
        /\ cValue = FromNat(Len(cLog))
        /\ \A p \in Callers :
               cRead[p] # NoWord => cRead[p] = FromNat(cReadAt[p])

\* every allowed Inc() has completed and a caller then read Value()
C1_Witness ==
    /\ OnlyInc(cLog)
    /\ Len(cLog) = MaxCounterCalls
    /\ \E p \in Callers : cReadAt[p] = MaxCounterCalls /\ cRead[p] # NoWord

\* the place of a 64-bit word in the order of the unsigned numbers: small
\* numbers, then those around 2^63, then those just below 2^64
UnsignedRank(a) ==
    IF a.hi = 1 THEN 1 ELSE IF a.lo >= 0 THEN 0 ELSE 2

\* a <= b as unsigned 64-bit numbers
ULeq64(a, b) ==
    \/ UnsignedRank(a) < UnsignedRank(b)
    \/ UnsignedRank(a) = UnsignedRank(b) /\ a.lo <= b.lo

\* C21: an Inc() or an Add(delta) never makes the Counter's value smaller,
\* and leaves it at the previous value plus the delta, also when the delta
\* takes the total past the largest 64-bit unsigned number.
C21_MonotonicWithoutReset ==
    [][(cLog' # cLog /\ cLog'[Len(cLog')].op # "Reset") =>
           /\ cValue' = Add64(cValue, cLog'[Len(cLog')].arg)
           /\ ULeq64(cValue, cValue')]_vars

---------------------------------------------------------------------------
(* Properties of the Gauge *)

\* a - b on 64-bit words
Sub64(a, b) == Word((a.hi - b.hi) % 2, a.lo - b.lo)

\* the sequential meaning of one Gauge call on the value v
GaugeApply(v, call) ==
    CASE call.op = "Set" -> call.arg
      [] call.op = "Add" -> Add64(v, call.arg)
      [] call.op = "Sub" -> Sub64(v, call.arg)

RECURSIVE GaugeReplay(_)
GaugeReplay(log) ==
    IF log = <<>> THEN Zero64
    ELSE GaugeApply(GaugeReplay(SubSeq(log, 1, Len(log) - 1)), log[Len(log)])

\* C2: in every interleaving of Set/Add/Sub by concurrent callers, the value
\* is the result of applying the completed calls one after the other in the
\* order they took effect, and every Value() returned the result of applying
\* the calls completed when it was read (a Set overwrites, no Add or Sub is
\* lost).
C2_GaugeSerializable ==
    /\ gValue = GaugeReplay(gLog)
    /\ \A p \in Callers :
           gRead[p] # NoWord =>
               gRead[p] = GaugeReplay(SubSeq(gLog, 1, gReadAt[p]))

\* a Set, an Add and a Sub have completed, one caller read Value() before
\* the last of them and another after it
C2_Witness ==
    /\ \A o \in {"Set", "Add", "Sub"} : \E i \in 1..Len(gLog) : gLog[i].op = o
    /\ \E p, q \in Callers :
           /\ gRead[p] # NoWord /\ gRead[q] # NoWord
           /\ 0 < gReadAt[p] /\ gReadAt[p] < gReadAt[q]
           /\ gReadAt[q] = Len(gLog)
           /\ gRead[p] # gRead[q]

\* C22: with one caller, a fresh Gauge has the value 0; Set(v) leaves the
\* value v whatever it was; Add(d) leaves old + d and Sub(d) old - d (in
\* int64 arithmetic), so a Sub(d) that follows an Add(d) leaves the value
\* there was before the Add; and Value() returns the value.
C22_GaugeAlgebra ==
    [][/\ gLog = <<>> => gValue = Zero64
       /\ gLog' # gLog =>
              LET call == gLog'[Len(gLog')]
              IN  /\ call.op = "Set" => gValue' = call.arg
                  /\ call.op = "Add" => gValue' = Add64(gValue, call.arg)
                  /\ call.op = "Sub" => gValue' = Sub64(gValue, call.arg)
                  /\ (/\ call.op = "Sub"
                      /\ gLog # <<>>
                      /\ gLog[Len(gLog)] = [op |-> "Add", arg |-> call.arg])
                         => gValue' =
                                GaugeReplay(SubSeq(gLog, 1, Len(gLog) - 1))
       /\ \A p \in Callers :
              (gRead'[p] # gRead[p] \/ gReadAt'[p] # gReadAt[p]) =>
                  gRead'[p] = gValue]_vars

\* after Set(0.5), Add(MaxInt64) and Sub(MaxInt64) the value is 0.5 again,
\* and Value() returned it
C22_Witness ==
    /\ gLog = <<[op |-> "Set", arg |-> FromNat(5)],
                [op |-> "Add", arg |-> MaxInt64],
                [op |-> "Sub", arg |-> MaxInt64]>>
    /\ gValue = FromNat(5)
    /\ gRead[1] = FromNat(5) /\ gReadAt[1] = 3

---------------------------------------------------------------------------
(* Properties of the Histogram *)

RECURSIVE SumOf(_)
SumOf(s) == IF s = <<>> THEN 0 ELSE Head(s) + SumOf(Tail(s))

\* how many of the values of s are at most b
CountAtMost(s, b) == Cardinality({j \in 1..Len(s) : s[j] <= b})

\* C3: with a non-empty bound sequence, after any sequence of Observe calls
\* the count of bucket i is the number of observed values <= bound i (so a
\* value counts in every bucket whose bound is >= it, a value equal to a
\* bound included), Count() is the number of observations and Sum() is
\* their sum; bounds [0.5,1,3,5] observing 0.3, 0.6, 2, 10 give [1,2,3,3].
C3_CumulativeBuckets ==
    Len(hBuckets) > 0 =>
        /\ Len(hCounts) = Len(hBuckets)
        /\ \A i \in 1..Len(hBuckets) :
               hCounts[i] = CountAtMost(hObserved, hBuckets[i])
        /\ hCount = Len(hObserved)
        /\ hSum = SumOf(hObserved)
        /\ (hBuckets = <<5, 10, 30, 50>> /\ hObserved = <<3, 6, 20, 100>>
               => hCounts = <<1, 2, 3, 3>> /\ hCount = 4 /\ hSum = 129)

\* the test's histogram after its four observations
C3_Witness ==
    /\ hBuckets = <<5, 10, 30, 50>>
    /\ hObserved = <<3, 6, 20, 100>>
    /\ hCounts = <<1, 2, 3, 3>>

\* the aggregate is what the Observe calls of hObserved, each applied as a
\* whole, make it
HistogramWhole ==
    /\ \A i \in 1..Len(hBuckets) :
           hCounts[i] = CountAtMost(hObserved, hBuckets[i])
    /\ hCount = Len(hObserved)
    /\ hSum = SumOf(hObserved)

\* C13: with non-empty bounds and concurrent callers of Observe, whenever no
\* Observe is inside its critical section (h.mu is free, or a reader holds
\* it), Count() is the number of Observe calls that took the lock, Sum() is
\* the sum of their values and every bucket count is the number of their
\* values <= its bound: no update is lost, and a reader that holds the lock
\* sees no partially applied Observe.
C13_ObserveAsOneUnit ==
    (Len(hBuckets) > 0 /\ (hMu = 0 \/ hPc[hMu] = "read")) => HistogramWhole

\* all the Observe calls of the concurrent callers have completed, and a
\* caller had to wait for h.mu
C13_Witness ==
    /\ hWaited
    /\ \A p \in Callers : hPc[p] = "idle"
    /\ Len(hObserved) = MaxObserves
    /\ hCount = MaxObserves
    /\ hBuckets = <<5, 30>>
    /\ hCounts[1] < hCounts[2]

\* C14: on a Histogram built with no bounds, Observe still updates the
\* running sum and count: after k observations Count() = k and Sum() is
\* the sum of the observed values.
C14_EmptyBoundsStillCount ==
    Len(hBuckets) = 0 =>
        /\ hCounts = <<>>
        /\ hCount = Len(hObserved)
        /\ hSum = SumOf(hObserved)

\* C15: an Observe(v) with v above the largest bound adds 1 to Count() and
\* v to Sum() and leaves every bucket count as it was: there is no overflow
\* bucket.
C15_AboveLargestBound ==
    [][(/\ Len(hBuckets) > 0
        /\ hObserved' # hObserved
        /\ hObserved'[Len(hObserved')] > hBuckets[Len(hBuckets)])
           => /\ hCount' = hCount + 1
              /\ hSum' = hSum + hObserved'[Len(hObserved')]
              /\ hCounts' = hCounts]_vars

\* the test's histogram after Observe(10.0): the last bucket's count is less
\* than Count()
C15_Witness ==
    /\ hBuckets = <<5, 10, 30, 50>>
    /\ hObserved = <<3, 100>>
    /\ hCounts = <<1, 1, 1, 1>>
    /\ hCounts[4] < hCount
    /\ hSum = SumOf(hObserved)

\* s is in ascending order; s and t hold the same values as often
IsAscending(s) == \A i \in 1..(Len(s) - 1) : s[i] <= s[i + 1]
IsPermutation(s, t) ==
    /\ Len(s) = Len(t)
    /\ \A x \in {s[i] : i \in 1..Len(s)} \cup {t[i] : i \in 1..Len(t)} :
           Cardinality({i \in 1..Len(s) : s[i] = x}) =
               Cardinality({i \in 1..Len(t) : t[i] = x})

\* C23: in whatever order the bounds are passed to NewHistogram, a
\* Buckets() returns the passed bounds in ascending order, as many as were
\* passed, and a Value() returns at index i the count of the observations
\* that are at most the i-th bound in ascending order; [0.5,1.0,5.0,3.0]
\* gives the bounds [0.5,1.0,3.0,5.0].
C23_BoundsInAnyOrder ==
    [][/\ hRetBuckets' # hRetBuckets =>
              /\ IsAscending(hRetBuckets'.val)
              /\ IsPermutation(hRetBuckets'.val, hInput)
              /\ hInput = <<5, 10, 50, 30>> =>
                     hRetBuckets'.val = <<5, 10, 30, 50>>
       /\ hRetCounts' # hRetCounts =>
              /\ IsAscending(hBuckets) /\ IsPermutation(hBuckets, hInput)
              /\ Len(hRetCounts'.val) = Len(hInput)
              /\ \A i \in 1..Len(hInput) :
                     hRetCounts'.val[i] =
                         CountAtMost(hObserved, hBuckets[i])]_vars

\* the bounds of the test, passed in its order; after three observations
\* Buckets() returned them ascending and Value() the counts in that order
C23_Witness ==
    /\ hInput = <<5, 10, 50, 30>>
    /\ hObserved = <<3, 20, 100>>
    /\ hRetBuckets = CopySlice(<<5, 10, 30, 50>>)
    /\ hRetCounts = CopySlice(<<1, 1, 2, 2>>)

\* C25: the bounds are fixed when NewHistogram returns: in every later
\* state, whatever calls were made and whatever the caller wrote into the
\* slice it passed or into a slice Buckets() returned, the Histogram's
\* bounds, which Buckets() returns, are the passed ones in ascending order.
C25_BoundsFixed ==
    IsAscending(hBuckets) /\ IsPermutation(hBuckets, hInput)

\* C26: the slice a Value() returns is a copy of the counts: the first
\* one returned holds the counts of that moment; a step that is not a
\* write into it by its holder leaves its elements as they are (a later
\* Observe does not change it); and the Histogram's counts change only by
\* an Observe (a write into a returned slice changes nothing of what a
\* later Value() returns).
C26_ValueReturnsCopy ==
    [][/\ (hRetCounts = NoSlice /\ hRetCounts' # NoSlice) =>
              SliceOf(hRetCounts, hCounts)' = hCounts
       /\ hRetCounts' = hRetCounts =>
              SliceOf(hRetCounts, hCounts)' = SliceOf(hRetCounts, hCounts)
       /\ hCounts' # hCounts => hObserved' # hObserved]_vars

\* a Value() returned [1, 1] after Observe(0.3); the caller wrote 2.0 into
\* its first element, and after Observe(2.0) the returned slice is as the
\* caller left it while the counts are [1, 2]
C26_Witness ==
    /\ hBuckets = <<5, 30>>
    /\ hObserved = <<3, 20>>
    /\ hCounts = <<1, 2>>
    /\ hRetCounts = CopySlice(<<WrittenValue, 1>>)

\* C32: whenever no Observe holds h.mu, the bucket counts are
\* non-decreasing along the bounds (counts[i] <= counts[i+1]) and the
\* count of the last bucket is at most Count().
C32_CountsOrderedAlongBounds ==
    hMu = NoCaller =>
        /\ \A i \in 1..(Len(hCounts) - 1) : hCounts[i] <= hCounts[i + 1]
        /\ Len(hCounts) > 0 => hCounts[Len(hCounts)] <= hCount

---------------------------------------------------------------------------
(* Properties of the Summary *)

\* r is the element at index k (from 0) of the values of s in ascending
\* order: r is a value of s, at most k values are below it and more than k
\* are at most it
IsAtSortedIndex(s, k, r) ==
    /\ \E j \in 1..Len(s) : s[j] = r
    /\ Cardinality({j \in 1..Len(s) : s[j] < r}) <= k
    /\ Cardinality({j \in 1..Len(s) : s[j] <= r}) > k

\* min(floor(q * n), n - 1)
NearestRank(q, n) ==
    LET f == (q[1] * n) \div q[2] IN IF f < n - 1 THEN f ELSE n - 1

C24_EmptyWhenNoSamples ==
    (sReturned /\ Len(sValues) = 0) => DOMAIN sResult = {}

\* a Reset has discarded samples and the Quantiles() called after it, on
\* a Summary with targets, has returned
C24_Witness ==
    /\ sReturned /\ sDiscarded
    /\ sValues = <<>>
    /\ sQuantiles = {<<1, 2>>, <<9, 10>>}
    /\ DOMAIN sResult = {}

\* C27: a Quantiles() sorts a copy: the step leaves the retained samples
\* in their order of observation, the sum and the count as they were, and
\* Value(), Sum() and Count() return these.
C27_QuantilesLeavesState ==
    [][/\ sReturned' =>
              sValues' = sValues /\ sSum' = sSum /\ sCount' = sCount
       /\ sRead' # sRead =>
              /\ sRead'.op = "Value" => sRead'.val = sSince
              /\ sRead'.op = "Sum" => sRead'.val = SumOf(sSince)
              /\ sRead'.op = "Count" => sRead'.val = Len(sSince)]_vars

\* 3 and then 1 were observed, Quantiles() has returned the median 3, and
\* Value() returns the samples in the order 3, 1
C27_Witness ==
    /\ sReturned
    /\ sQuantiles = {<<1, 2>>, <<9, 10>>}
    /\ sValues = <<30, 10>>
    /\ sResult[<<1, 2>>] = 30
    /\ sRead = [op |-> "Value", val |-> <<30, 10>>]

\* the calls of a Counter's log made after its latest Reset
RECURSIVE SinceReset(_)
SinceReset(log) ==
    IF log = <<>> THEN <<>>
    ELSE IF log[Len(log)].op = "Reset" THEN <<>>
    ELSE Append(SinceReset(SubSeq(log, 1, Len(log) - 1)), log[Len(log)])

\* the value of a fresh Counter after the Inc and Add calls of the log
RECURSIVE FreshCounter(_)
FreshCounter(log) ==
    IF log = <<>> THEN Zero64
    ELSE Add64(FreshCounter(Tail(log)), Head(log).arg)

\* C16: Reset() returns the aggregate to its initial state whatever came
\* before.  The Counter's value is that of a fresh Counter after the calls
\* made since the latest Reset (0 right after it); the Summary retains the
\* samples observed since the latest Reset and no others, and its Count()
\* and Sum() are their number and their sum (0 and 0 right after it).
C16_ResetRestoresInitial ==
    /\ cValue = FreshCounter(SinceReset(cLog))
    /\ (cLog # <<>> /\ cLog[Len(cLog)].op = "Reset") => cValue = Zero64
    /\ sValues = sSince
    /\ sCount = Len(sSince)
    /\ sSum = SumOf(sSince)
    /\ sSince = <<>> => (sValues = <<>> /\ sCount = 0 /\ sSum = 0)

\* the Counter was reset after an Add and incremented once since; the
\* Summary was reset while it retained samples, and nothing was observed
\* since
C16_Witness ==
    /\ Len(cLog) = 3
    /\ cLog[1].op = "Add" /\ cLog[2].op = "Reset" /\ cLog[3].op = "Inc"
    /\ cValue = FromNat(1)
    /\ sDiscarded /\ sSince = <<>>
    /\ sCount = 0 /\ sSum = 0

\* C17: in every interleaving of the steps of concurrent Reset and Observe
\* calls, whenever no call holds s.mu, Count() is the number of retained
\* samples, Sum() is their sum, and the retained samples are exactly those
\* of the Observe calls that took the lock after the latest Reset did: an
\* Observe lands entirely before or entirely after a Reset.
C17_ResetAsOneUnit ==
    sMu = 0 =>
        /\ sCount = Len(sValues)
        /\ sSum = SumOf(sValues)
        /\ sValues = sSince

\* a Reset has discarded samples, a caller had to wait for s.mu, and an
\* Observe has completed since
C17_Witness ==
    /\ sDiscarded /\ sWaited
    /\ \A p \in Callers : sPc[p] = "idle"
    /\ sValues # <<>>
    /\ sCount = Len(sValues)

\* C28: Quantiles() holds s.mu from its test of len(s.values) to its
\* return, and with Observe and Reset calls running concurrently every
\* entry of the mapping it returns is the nearest-rank element of one
\* sample set, the one retained at the moment of the return (no entry at
\* all when that set is empty).
C28_QuantilesOverOneSampleSet ==
    [][/\ sPc[QuantilesCaller] \in {"qmake", "qcopy", "qreturn"} =>
              sMu = QuantilesCaller
       /\ (sPc[QuantilesCaller] = "qreturn"
              /\ sPc'[QuantilesCaller] = "idle") =>
              IF Len(sValues) = 0 THEN DOMAIN sResult' = {}
              ELSE /\ DOMAIN sResult' = sQuantiles
                   /\ \A q \in sQuantiles :
                          IsAtSortedIndex(sValues,
                              NearestRank(q, Len(sValues)), sResult'[q])]_vars

\* a Quantiles() has returned 1 and 3 for the targets 0.25 and 0.9 over
\* the samples 3, 1; a caller had to wait for s.mu, and an Observe is
\* waiting for it now
C28_Witness ==
    /\ sReturned /\ sWaited
    /\ sQuantiles = {<<1, 4>>, <<9, 10>>}
    /\ sValues = <<30, 10>>
    /\ DOMAIN sResult = sQuantiles
    /\ sResult[<<1, 4>>] = 10 /\ sResult[<<9, 10>>] = 30
    /\ \E p \in Observers : sPc[p] = "olock"

---------------------------------------------------------------------------
(* Properties of the Collector *)

\* the argument of the first Register call made under the name, or Nil
FirstRegistered(name) ==
    LET at == {i \in 1..Len(regLog) : regLog[i].name = name}
    IN  IF at = {} THEN Nil
        ELSE regLog[CHOOSE i \in at : \A j \in at : i <= j]

\* C5: a Register under a name that is already present changes nothing: the
\* registry holds, under every name, the instance of the first Register call
\* made with that name, every completed registration stays present, and a
\* Get that finds a metric returns that first instance, not a later one.
C5_FirstRegistrationWins ==
    /\ \A n \in DOMAIN metrics : metrics[n] = FirstRegistered(n)
    /\ \A i \in 1..Len(regLog) :
           \/ regLog[i].name \in DOMAIN metrics
           \/ \E p \in Callers :
                  pc[p] = "assign" /\ arg[p].name = regLog[i].name
    /\ \A p \in Callers :
           retGet[p] # Nil => retGet[p] = FirstRegistered(retGet[p].name)

\* two different instances were registered under one name, both calls have
\* returned, and a Get then returned the first of them
C5_Witness ==
    /\ Len(regLog) = 2
    /\ regLog[1].name = regLog[2].name /\ regLog[1] # regLog[2]
    /\ \A p \in Callers : pc[p] = "idle"
    /\ \E p \in Callers : retGet[p] = regLog[1]

\* C6: no read of the registry's mapping (by Get, by Metrics, or by the
\* Report of a tick) overlaps a Register's write of it.
C6_NoReadOverlapsWrite == ~raced

\* C7: while a Report is running, the mapping it was handed has the
\* membership the registry had when the tick was taken: a Register that
\* completes meanwhile adds no name to it.
C7_ReportSnapshotFrozen ==
    loopPc = "reporting" => DOMAIN Deref(rptArg) = DOMAIN rptTick

\* the names that Register was called with
RegisteredNames == {regLog[i].name : i \in 1..Len(regLog)}

\* C18: whatever the order of the Register calls and however many of them
\* repeat a name, the mapping a Metrics() returns has as many entries as
\* there are distinct names among the Register calls made before it.
C18_SizeIsDistinctNames ==
    [][\A p \in Callers :
           (pc[p] = "metrics" /\ pc'[p] = "idle") =>
               /\ DOMAIN retMetrics'[p].val = RegisteredNames
               /\ Cardinality(DOMAIN retMetrics'[p].val) =
                      Cardinality(RegisteredNames)]_vars

\* "a" was registered twice and then "b" once, and a Metrics() called
\* after the three returned a mapping of two entries
C18_Witness ==
    /\ regLog = <<OneInstance("a"), OneInstance("a"), OneInstance("b")>>
    /\ \E p \in Callers :
           /\ pc[p] = "idle"
           /\ retMetrics[p] = CopyRef(metrics)
           /\ Cardinality(DOMAIN retMetrics[p].val) = 2

\* C19: the mapping a Metrics() returns holds the registry's entries of
\* the instant of the call and is the caller's own: a step that is not an
\* edit of it by its holder leaves its content as it was (a later Register
\* adds no name to it), and the registry's mapping changes only by the
\* assignment of a Register (an edit of a returned mapping changes nothing
\* of what Get and Metrics read).
C19_ReturnedMapIndependent ==
    [][/\ \A p \in Callers :
              /\ (pc[p] = "metrics" /\ pc'[p] = "idle") =>
                     Deref(retMetrics[p])' = metrics
              /\ retMetrics'[p] = retMetrics[p] =>
                     Deref(retMetrics[p])' = Deref(retMetrics[p])
       /\ metrics' # metrics =>
              \E p \in Callers :
                  /\ pc[p] = "assign" /\ pc'[p] = "unlock"
                  /\ metrics' = Assign(metrics, arg[p].name, arg[p])]_vars

\* a Metrics() returned while only "a" was registered still holds "a"
\* alone after "b" was registered, and another caller has emptied the
\* mapping it was returned and put a metric of its own under "b", while
\* the registry holds the two registered metrics
C19_Witness ==
    /\ regLog = <<OneInstance("a"), OneInstance("b")>>
    /\ metrics = Assign(Assign(EmptyMap, "a", OneInstance("a")),
                        "b", OneInstance("b"))
    /\ \A p \in Callers : pc[p] = "idle"
    /\ \E p \in Callers :
           retMetrics[p] = CopyRef(Assign(EmptyMap, "a", OneInstance("a")))
    /\ \E p \in Callers :
           retMetrics[p] =
               CopyRef(Assign(EmptyMap, "b", Unregistered("b")))

\* C20: a Get returns the metric registered under the name, which is the
\* first one registered under it, or Nil when no Register was called with
\* the name; and from its RLock to its return the registry's mapping stays
\* as it is: a miss inserts no entry.
C20_GetIsPureRead ==
    [][\A p \in Callers :
           (pc[p] = "get" \/ pc'[p] = "get") =>
               /\ metrics' = metrics
               /\ (pc[p] = "get" /\ pc'[p] = "idle") =>
                      retGet'[p] = FirstRegistered(arg[p].name)]_vars

\* only "a" was ever registered; a Get of "a" has returned the metric, a
\* Get of "b" has returned Nil, and the mapping holds the one entry
C20_Witness ==
    /\ RegisteredNames = {"a"}
    /\ <<"a", OneInstance("a")>> \in gets
    /\ <<"b", Nil>> \in gets
    /\ metrics = Assign(EmptyMap, "a", OneInstance("a"))
    /\ \A p \in Callers : pc[p] = "idle"

\* C29: with Register calls racing under one name the registry keeps one
\* instance, that of the call that took the lock first, and no entry is
\* replaced or removed: the instance a caller was returned by a Get, and
\* every entry of a mapping a caller was returned by a Metrics(), is the
\* registry's entry under that name now, whatever calls were made since,
\* so a later Get or Metrics() returns it again.
C29_MembershipStable ==
    /\ \A n \in DOMAIN metrics : metrics[n] = FirstRegistered(n)
    /\ \A p \in Callers :
           /\ retGet[p] # Nil =>
                  /\ retGet[p].name \in DOMAIN metrics
                  /\ metrics[retGet[p].name] = retGet[p]
           /\ \A n \in DOMAIN retMetrics[p].val :
                  n \in DOMAIN metrics /\ metrics[n] = retMetrics[p].val[n]

\* two metrics were registered under "a", then one under "b"; a caller's
\* Get returned the first, and the Metrics() of another, called after the
\* three, returned it under "a"
C29_Witness ==
    /\ Len(regLog) = 3
    /\ regLog[1].name = "a" /\ regLog[2].name = "a"
    /\ regLog[1] # regLog[2] /\ regLog[3].name = "b"
    /\ \E p \in Callers : retGet[p] = regLog[1]
    /\ \E p \in Callers :
           /\ DOMAIN retMetrics[p].val = {"a", "b"}
           /\ retMetrics[p].val["a"] = regLog[1]

---------------------------------------------------------------------------
(* Properties of the reporter loop *)

\* a signalling of the stop handle has returned to its caller
StopReturned == \E s \in Stoppers : stopper[s] = "returned"

\* the stop handle has been signalled
StopSignalled ==
    stopClosed \/ \E s \in Stoppers : stopper[s] \in {"sending", "returned"}

\* C8: once a signalling of the stop handle has returned, no Report
\* invocation begins, even if a tick is due.
C8_NoReportAfterStop ==
    [][StopReturned => ~(loopPc # "reporting" /\ loopPc' = "reporting")]_vars

\* C9: a signalling of the stop handle made after the loop has stopped
\* neither fails (panics) nor blocks its caller forever (the loop, being
\* stopped, never receives what such a caller is sending).
C9_SecondStopHarmless ==
    \A s \in Stoppers : stopLate[s] => stopper[s] \notin {"panicked", "sending"}

\* C10: once the stop handle is signalled, and given that every Report
\* returns, the loop eventually is stopped and stays stopped.
C10_StopTerminates == [](StopSignalled => <>[](loopPc = "stopped"))

\* the loop has stopped after the signal, having run a Report before
C10_Witness == loopPc = "stopped" /\ StopReturned /\ reports >= 1

\* C11: a reporter loop has at most one Report invocation in progress at any
\* time, and it is the one the loop goroutine is inside: a tick that comes
\* due while Report runs starts no second Report, the next one is entered
\* only after the previous one returned.
C11_OneReportAtATime ==
    /\ rptActive \in {0, 1}
    /\ rptActive = 1 <=> loopPc = "reporting"

\* a tick has come due while the second Report of the loop is running
C11_Witness ==
    loopPc = "reporting" /\ tickDue /\ rptActive = 1 /\ reports = 2

\* C12 as stated: once the loop has stopped, with T the interval and E the
\* time elapsed from StartReporter to the first signal of the stop handle,
\* the number of Report invocations the loop made is within one of E / T
\* (E / T taken in whole ticks).
C12_ReportsWithinOneOfElapsed ==
    loopPc = "stopped" =>
        /\ reports - 1 <= stopAt \div interval
        /\ stopAt \div interval <= reports + 1

\* C12 as amended: at every moment, with E the time elapsed since the loop
\* created its ticker, every one of the E / T ticks so far has started a
\* Report, or waits in ticker.C, or was dropped; so the number of Report
\* invocations begun is at most E / T, and it is within one of E / T as
\* long as no tick was dropped.
C12_ReportsBoundedByTicks ==
    /\ reports + dropped + (IF tickDue THEN 1 ELSE 0) = elapsed \div interval
    /\ reports <= elapsed \div interval
    /\ dropped = 0 => reports >= (elapsed \div interval) - 1

\* a Report has begun at every tick of the time that passed, the third of
\* them at the moment its tick came due
C12_Witness ==
    /\ reports = 3 /\ dropped = 0
    /\ elapsed = reports * interval
    /\ loopPc = "reporting"


\* C30: while a Report has not returned, the loop starts no Report and
\* serves neither a tick that is due nor the stop signal: it leaves the
\* Report only by the Report's return, a sender on the stop channel stays
\* blocked, and the loop is not stopped.  A Report that never returns
\* keeps the loop there for ever.
C30_StalledSinkStallsLoop ==
    [][loopPc = "reporting" =>
           /\ reports' = reports /\ rptActive' <= rptActive
           /\ loopPc' \in {"reporting", "select"}
           /\ loopPc' = "select" => rptActive' = rptActive - 1
           /\ tickDue => tickDue'
           /\ \A s \in Stoppers :
                  stopper[s] = "sending" => stopper'[s] # "returned"]_vars

\* the first Report is running; the next tick is due and a sender waits
\* on the stop channel
C30_Witness ==
    /\ loopPc = "reporting"
    /\ reports = 1 /\ rptActive = 1
    /\ tickDue
    /\ \E s \in Stoppers : stopper[s] = "sending"


\* C31: nothing in the loop catches a panic of Report.  Once a Report has
\* panicked the loop is gone for good: it is not selecting, it starts no
\* Report on any later tick, and the failed Report is never returned from.
C31_PanicEndsReporting ==
    [][/\ rptFailed' => loopPc' = "panicked"
       /\ rptFailed =>
              /\ rptFailed'
              /\ reports' = reports
              /\ rptActive' = rptActive]_vars

\* the second Report panicked while the next tick was already due
C31_Witness ==
    /\ rptFailed
    /\ loopPc = "panicked"
    /\ reports = 2 /\ rptActive = 1
    /\ tickDue


\* the metrics that Register of the process-wide Collector was called with
GloballyRegistered == {regLog[i] : i \in 1..Len(regLog)}

\* C33: the loop reports the process-wide Collector and nothing else.  In
\* the mapping handed to a Report, and in what the Report reads from it,
\* every name and every metric was registered into the process-wide
\* Collector; a metric registered only into the other Collector is not
\* there.
C33_ReportsDefaultRegistry ==
    loopPc = "reporting" =>
        \A seen \in {Deref(rptArg), rptSeen} :
            \A n \in DOMAIN seen :
                /\ n \in RegisteredNames
                /\ seen[n] \in GloballyRegistered
                /\ ~\E o \in DOMAIN otherMetrics :
                       /\ otherMetrics[o] \notin GloballyRegistered
                       /\ seen[n] = otherMetrics[o]

\* "a" is registered in both Collectors as different metrics and "b" in
\* the other Collector only; the Report in progress has read the one entry
\* of the process-wide Collector
C33_Witness ==
    /\ loopPc = "reporting"
    /\ DOMAIN otherMetrics = {"a", "b"}
    /\ otherMetrics["a"] \in OtherInstances
    /\ otherMetrics["b"] \in OtherInstances
    /\ DOMAIN rptSeen = {"a"}
    /\ rptSeen["a"] \in MetricInstances
    /\ DOMAIN metrics = {"a"}


---------------------------------------------------------------------------
(* Properties of the Pool *)

\* C34: however many calls of Start and Stop are made, one after another
\* or at the same time, close(p.quit) is executed at most once, no call
\* panics, and at most numWorkers workers are ever started.
C34_StartStopIdempotent ==
    /\ quitCloses <= 1
    /\ ~poolPanic
    /\ Len(wPc) <= numWorkers

\* two calls of Stop and one of Start have returned: the quit channel was
\* closed once and the Pool has its two workers
C34_Witness ==
    /\ stopCalls = 2 /\ startCalls = 1
    /\ \A p \in Callers : plPc[p] = "idle"
    /\ quitCloses = 1 /\ quitClosed
    /\ numWorkers = 2 /\ Len(wPc) = 2


\* C35: once Stop has been called, a caller that is inside AddTask gets
\* out of it, whatever the state of the task channel and of the workers;
\* and every worker started ends up exited, or inside a task.Execute()
\* that does not return.
C35_StopReleasesEveryone ==
    /\ \A p \in Adders :
           (onceStop # "fresh" /\ plPc[p] = "adding") ~> (plPc[p] # "adding")
    /\ \A w \in Workers :
           [](onceStop # "fresh" =>
                  <>[](w \in 1..Len(wPc) =>
                           wPc[w] \in {"exited", "executing"}))

\* the Pool has no buffer and was stopped before it was started: an
\* AddTask made while no worker was there was released by the quit case,
\* and the two workers started later have exited, the ctx not cancelled
C35_Witness ==
    /\ quitClosed /\ ~ctxDone
    /\ taskCap = 0 /\ tasksLen = 0
    /\ addDropped = 1
    /\ numWorkers = 2 /\ wPc = <<"exited", "exited">>
    /\ \A p \in Callers : plPc[p] = "idle"


---------------------------------------------------------------------------
(* Properties of the Request *)

\* the attempts of a Send: at most retries + 1 calls of client.Do; every
\* call but the latest failed with a timeout or temporary url.Error and
\* was made with fewer than retries retries used; and once Send is past
\* its loop the latest call succeeded, or failed with an error that is not
\* retried, or was the one that used up the retries
AttemptsAsConfigured ==
    /\ Len(sendTried) <= IF rqRetries < 0 THEN 0 ELSE rqRetries + 1
    /\ \A i \in 1..(Len(sendTried) - 1) :
           shouldRetry(sendTried[i]) /\ i - 1 < rqRetries
    /\ (sendPc \in {"after", "read", "returned"} /\ Len(sendTried) > 0) =>
           \/ ~shouldRetry(sendTried[Len(sendTried)])
           \/ Len(sendTried) = rqRetries + 1

\* the latest call of client.Do returned an error
LastAttemptFailed ==
    Len(sendTried) > 0 /\ sendTried[Len(sendTried)] # NoErr

\* C36: Send makes at most retries + 1 attempts, another one only after a
\* retryable error with fewer than retries retries used, none after a
\* success or an error that is not retryable; and it returns an error
\* exactly when the last attempt made returned an error.
C36_ErrorIffLastAttemptFailed ==
    /\ AttemptsAsConfigured
    /\ sendPc = "returned" => (sendResult = "error" <=> LastAttemptFailed)

\* C36, amended: the same for the attempts; a Send that returns returns an
\* error when the last attempt made returned one, when it made no attempt
\* at all, or when the attempt succeeded and the read of the body failed
\* (nothing else returns an error); and a Send that reaches its loop with
\* negative retries makes no attempt and does not return: it panics.
C36_ErrorFromAttemptOrAround ==
    /\ AttemptsAsConfigured
    /\ sendPc = "returned" =>
           /\ sendResult \in {"error", "response"}
           /\ (LastAttemptFailed \/ Len(sendTried) = 0) => sendResult = "error"
           /\ sendResult = "response" =>
                  Len(sendTried) > 0 /\ sendTried[Len(sendTried)] = NoErr
    /\ sendPc = "panicked" <=>
           /\ rqRetries < 0 /\ rqMethod # "" /\ rqFiles # "missing"
           /\ sendPc \notin {"idle", "loop", "after"}

\* with retries 1, the first attempt timed out, the second succeeded, and
\* Send returned the error of the read of the body
C36_Witness ==
    /\ rqRetries = 1
    /\ sendTried = <<"url timeout", NoErr>>
    /\ sendPc = "returned"
    /\ sendResult = "error"

===========================================================================
